---------------------------- MODULE Spec2Model ----------------------------
(***************************************************************************)
(* Model of the liquidation bot (src/src): the execution guard and the     *)
(* simulate-then-submit pipeline of Liquidator and ArbitrageExecutor, the  *)
(* instruction lists they assemble, and the position evaluation of the     *)
(* scanner (eligibility, max_liquidatable, math::estimate_profit).         *)
(*                                                                         *)
(* Rust integers wider than TLC's are kept at their width as sequences of  *)
(* 8-bit limbs, least significant first: a u64/i64 is 8 limbs, a u128 16.  *)
(***************************************************************************)
EXTENDS Integers, Sequences, FiniteSets, TLC

(***************************************************************************)
(* Fixed-width integer arithmetic.  An integer of 8n bits is a sequence of *)
(* n limbs in 0..255, least significant limb first.                        *)
(***************************************************************************)

Pow2(n) == 2 ^ n

\* The number of limbs of an integer of `bits` bits.
Limbs(bits) == bits \div 8

\* Limb j of x; limbs beyond the width read as 0.
Limb(x, j) == IF j <= Len(x) THEN x[j] ELSE 0

\* Bit i (weight 2^(i-1)) of x; bits beyond the width read as 0.
Bit(x, i) == (Limb(x, (i - 1) \div 8 + 1) \div Pow2((i - 1) % 8)) % 2

\* The limbs of the integer whose bit i is f[i], for i in 1..bits.
FromBits(f, bits) ==
    [j \in 1..Limbs(bits) |->
        LET b == 8 * (j - 1)
        IN  f[b + 1] + 2 * f[b + 2] + 4 * f[b + 3] + 8 * f[b + 4]
            + 16 * f[b + 5] + 32 * f[b + 6] + 64 * f[b + 7] + 128 * f[b + 8]]

\* The pattern, on `bits` bits, of a natural number n < 2^31.
FromNat(n, bits) ==
    [j \in 1..Limbs(bits) |-> IF j <= 4 THEN (n \div Pow2(8 * (j - 1))) % 256 ELSE 0]

\* An integer cast `x as uN`: the low bits are kept, the rest is zero.
Resize(x, bits) == [j \in 1..Limbs(bits) |-> Limb(x, j)]

\* TRUE when the unsigned value of x is below 2^24, so it fits a TLC integer.
IsSmall(x) == \A j \in 1..Len(x) : j > 3 => x[j] = 0

\* The unsigned value of x, for x with IsSmall(x).
ToNat(x) == Limb(x, 1) + 256 * Limb(x, 2) + 65536 * Limb(x, 3)

IsZero(x) == \A j \in 1..Len(x) : x[j] = 0

\* The sign bit of a two's-complement pattern.
IsNeg(x) == x[Len(x)] >= 128

RECURSIVE AddLimbs(_, _, _, _)
AddLimbs(x, y, j, carry) ==
    IF j > Len(x) THEN <<>>
    ELSE LET s == x[j] + Limb(y, j) + carry
         IN  <<s % 256>> \o AddLimbs(x, y, j + 1, s \div 256)

\* Wrapping addition at the width of x.
WrappingAdd(x, y) == AddLimbs(x, y, 1, 0)

\* Two's-complement negation at the width of x.
WrappingNeg(x) == AddLimbs([j \in 1..Len(x) |-> 255 - x[j]], <<1>>, 1, 0)

\* Wrapping subtraction at the width of x.
WrappingSub(x, y) == WrappingAdd(x, WrappingNeg(Resize(y, 8 * Len(x))))

RECURSIVE MulLimbs(_, _, _, _, _)
MulLimbs(x, m, j, carry, n) ==
    IF j > n THEN <<>>
    ELSE LET s == Limb(x, j) * m + carry
         IN  <<s % 256>> \o MulLimbs(x, m, j + 1, s \div 256, n)

\* The low `bits` bits of x * m, for a natural number m < 2^16.
MulSmall(x, m, bits) == MulLimbs(x, m, 1, 0, Limbs(bits))

RECURSIVE DivLimbs(_, _, _, _)
DivLimbs(x, d, j, rem) ==
    IF j = 0 THEN <<>>
    ELSE LET r == 256 * rem + x[j]
         IN  DivLimbs(x, d, j - 1, r % d) \o <<r \div d>>

\* Unsigned x / d (integer division), for a natural number 0 < d < 2^22.
DivSmall(x, d) == DivLimbs(x, d, Len(x), 0)

\* Signed x / d, truncating toward zero as Rust's `/` on i64 does.
SignedDivSmall(x, d) ==
    IF IsNeg(x) THEN WrappingNeg(DivSmall(WrappingNeg(x), d)) ELSE DivSmall(x, d)

\* Unsigned x < y.
Less(x, y) ==
    LET n == IF Len(x) > Len(y) THEN Len(x) ELSE Len(y)
    IN  \E j \in 1..n : /\ Limb(x, j) < Limb(y, j)
                        /\ \A k \in (j + 1)..n : Limb(x, k) = Limb(y, k)

\* Signed x < y for two's-complement patterns of one width.
SignedLess(x, y) ==
    IF IsNeg(x) # IsNeg(y) THEN IsNeg(x) ELSE Less(x, y)

\* The position of the highest set bit of x (0 when x = 0).
BitLen(x) ==
    LET set == {i \in 1..(8 * Len(x)) : Bit(x, i) = 1}
    IN  IF set = {} THEN 0 ELSE CHOOSE i \in set : \A k \in set : k <= i

(***************************************************************************)
(* State.                                                                  *)
(***************************************************************************)
VARIABLES
    overflow_checks,  \* the build's integer-overflow checks (on: debug, off: release)
    ev_in,            \* the call under evaluation: a decoded position or estimate_profit's arguments
    ev_out,           \* what the call produced, NotEvaluated before it ran
    EXECUTING,        \* liquidator.rs: the process-wide AtomicBool
    dry_run,          \* BotConfig::dry_run, shared by both executors
    pc,               \* per task: where its current execute() call stands
    opportunity,      \* per task: the opportunity passed to execute()
    calls,            \* per task: the RPC / HTTP calls the current attempt has made, in order
    tx,               \* per task: the instruction list assembled by the current attempt
    sim,              \* per task: what simulate_transaction answered for tx
    result,           \* per task: what execute() returned
    now,              \* the monotonic clock (Instant::now()), in ticks
    rate_limiter,     \* utils.rs: the fields of the RateLimiter
    limiter_pc,       \* where the caller of RateLimiter::wait stands
    admitted,         \* the calls of wait() that returned: when, and whether they slept
    config,           \* BotConfig: the fields scan_all reads
    scan_pc,          \* where scan_all and the poll loop around it stand
    scan_task,        \* per protocol: the spawned scan task and its locals
    collected,        \* scan_all's `opportunities` vector
    offered,          \* the opportunities the poll loop passed to execute()
    stats,            \* utils.rs: the counters of BotStats
    poll              \* main.rs: where start_bot's loop stands, and its locals

evalVars == <<overflow_checks, ev_in, ev_out>>

execVars == <<EXECUTING, dry_run, pc, opportunity, calls, tx, sim, result>>

limiterVars == <<now, rate_limiter, limiter_pc, admitted>>

scanVars == <<config, scan_pc, scan_task, collected, offered>>

pollVars == <<stats, poll>>

vars == <<overflow_checks, ev_in, ev_out, EXECUTING, dry_run, pc, opportunity, calls, tx, sim, result,
          now, rate_limiter, limiter_pc, admitted,
          config, scan_pc, scan_task, collected, offered,
         stats, poll>>

\* BotStats::new and the loop of start_bot before its first tick.
NoStats ==
    [ total_scans |-> 0, opportunities_found |-> 0, liquidations_attempted |-> 0,
      liquidations_success |-> 0, liquidations_failed |-> 0,
      total_profit_lamports |-> FromNat(0, 64) ]

BeforeFirstTick ==
    [at |-> "tick", opportunities |-> <<>>, i |-> 0, error |-> "none", ticks |-> 0,
     executed |-> 0]

InitStats ==
    /\ stats = NoStats
    /\ poll = BeforeFirstTick

NotEvaluated == [status |-> "not_evaluated"]

Evaluated == ev_out.status # "not_evaluated"

(***************************************************************************)
(* utils.rs: math::estimate_profit.                                        *)
(***************************************************************************)

\* `x as i64` of a u64: the 64-bit pattern is kept and read as two's complement.
AsI64(x) == Resize(x, 64)

\* Whether the i64 product x * m (m a non-negative u16 widened to i64) leaves
\* the i64 range: the magnitude |x| * m is computed exactly on 80 bits.
MulOverflows(x, m) ==
    LET magnitude == IF IsNeg(x) THEN WrappingNeg(x) ELSE x
        prod      == MulSmall(magnitude, m, 80)
    IN  IF IsNeg(x)
        THEN BitLen(prod) > 64 \/ (BitLen(prod) = 64 /\ \E i \in 1..63 : Bit(prod, i) = 1)
        ELSE BitLen(prod) >= 64

\* Whether the i64 difference a - b leaves the i64 range.
SubOverflows(a, b) ==
    IsNeg(a) # IsNeg(b) /\ IsNeg(WrappingSub(a, b)) # IsNeg(a)

\* math::estimate_profit: liab_amount and gas_fee are u64 patterns, the basis
\* points are u16 numbers.  value is the i64 the wrapping arithmetic of a
\* build without overflow checks returns; overflow tells whether an
\* intermediate product or difference left the i64 range, where a build with
\* overflow checks panics.
estimate_profit(liab_amount, liquidation_bonus_bps, gas_fee, swap_slippage_bps) ==
    LET liab          == AsI64(liab_amount)
        bonus         == SignedDivSmall(MulSmall(liab, liquidation_bonus_bps, 64), 10000)
        slippage_cost == SignedDivSmall(MulSmall(liab, swap_slippage_bps, 64), 10000)
        gas           == AsI64(gas_fee)
        afterGas      == WrappingSub(bonus, gas)
    IN  [ overflow |-> \/ MulOverflows(liab, liquidation_bonus_bps)
                       \/ MulOverflows(liab, swap_slippage_bps)
                       \/ SubOverflows(bonus, gas)
                       \/ SubOverflows(afterGas, slippage_cost),
          value    |-> WrappingSub(afterGas, slippage_cost) ]

\* `estimated_profit > 0` on an i64.
IsPositiveI64(x) == ~IsNeg(x) /\ ~IsZero(x)

(***************************************************************************)
(* scanner.rs: eligibility and economics of one decoded position.          *)
(***************************************************************************)

\* `x as f64` of a u128: the nearest number with a 53-bit significand, ties
\* to even.  The result is an integer; it is returned on 136 bits because
\* rounding up may carry into bit 129.
U128AsF64(x) ==
    LET len   == BitLen(x)
        shift == len - 53
        kept  == FromBits([i \in 1..136 |-> IF i > shift THEN Bit(x, i) ELSE 0], 136)
        unit  == FromBits([i \in 1..136 |-> IF i = shift + 1 THEN 1 ELSE 0], 136)
        above == Bit(x, shift) = 1 /\ \E i \in 1..(shift - 1) : Bit(x, i) = 1
        tie   == Bit(x, shift) = 1 /\ \A i \in 1..(shift - 1) : Bit(x, i) = 0
        up    == above \/ (tie /\ Bit(x, shift + 1) = 1)
    IN  IF len <= 53 THEN Resize(x, 136)
        ELSE IF up THEN WrappingAdd(kept, unit) ELSE kept

\* KaminoObligation::is_liquidatable
is_liquidatable(obligation) ==
    IF IsZero(obligation.borrowed_assets_market_value_sf) THEN FALSE
    ELSE Less(obligation.unhealthy_borrow_value_sf,
              obligation.borrowed_assets_market_value_sf)

\* KaminoObligation::health_ratio.  The f64 it returns is kept as the pair of
\* f64 operands of the division (kind "quotient"), or as the literal the
\* function returns (f64::MAX, 0.0).
health_ratio(obligation) ==
    IF IsZero(obligation.borrowed_assets_market_value_sf)
    THEN [kind |-> "f64_max", num |-> <<>>, den |-> <<>>]
    ELSE IF IsZero(obligation.unhealthy_borrow_value_sf)
    THEN [kind |-> "zero", num |-> <<>>, den |-> <<>>]
    ELSE [kind |-> "quotient",
          num  |-> U128AsF64(obligation.unhealthy_borrow_value_sf),
          den  |-> U128AsF64(obligation.borrowed_assets_market_value_sf)]

\* `ratio < 1.0`.  IEEE division is correctly rounded: for f64 operands
\* a, b > 0 the quotient a / b rounds below 1.0 exactly when a < b.
F64LessThanOne(ratio) ==
    \/ ratio.kind = "zero"
    \/ ratio.kind = "quotient" /\ Less(ratio.num, ratio.den)

\* The division with the scale constant taken as 10^6.
DivByKaminoScale_WrongScale(x) == DivSmall(DivSmall(x, 10000), 100)

\* `borrowed_assets_market_value_sf / 1_000_000_000_000`: the divisor is
\* 10000^3, and floor division by a product is successive floor division.
DivByKaminoScale(x) == DivSmall(DivSmall(DivSmall(x, 10000), 10000), 10000)

KaminoBonusBps == 500

MarginfiBonusBps == 250

ScanGasFee == 5000

\* The body of scan_kamino_parallel's loop for one decoded obligation; the
\* result is the list of opportunities the obligation adds (none or one).
\* `checks` tells whether the build has overflow checks.
KaminoLoopBody(obligation, max_slippage, checks) ==
    LET total_debt       == Resize(DivByKaminoScale(
                                obligation.borrowed_assets_market_value_sf), 64)
        max_liquidatable == DivSmall(total_debt, 2)
        estimated_profit == estimate_profit(max_liquidatable, KaminoBonusBps,
                                FromNat(ScanGasFee, 64), max_slippage * 100)
        opp == [ protocol                  |-> "Kamino",
                 health_factor             |-> health_ratio(obligation),
                 max_liquidatable          |-> max_liquidatable,
                 liquidation_bonus_bps     |-> KaminoBonusBps,
                 estimated_profit_lamports |-> estimated_profit.value ]
    IN  IF ~is_liquidatable(obligation)
        THEN [status |-> "done", liquidatable |-> FALSE, opportunities |-> <<>>]
        ELSE IF estimated_profit.overflow /\ checks
        THEN [status |-> "panic", liquidatable |-> TRUE, opportunities |-> <<>>]
        ELSE IF IsPositiveI64(estimated_profit.value)
        THEN [status |-> "done", liquidatable |-> TRUE, opportunities |-> <<opp>>]
        ELSE [status |-> "done", liquidatable |-> TRUE, opportunities |-> <<>>]

\* The loop body in the build at hand.
KaminoEvaluate(obligation, max_slippage) ==
    KaminoLoopBody(obligation, max_slippage, overflow_checks)

\* The body of scan_marginfi_parallel's loop once the balances are summed:
\* total_assets and total_liabs are the i128 sums (never negative, below 2^67:
\* sixteen i64 terms).  On that range Decimal's 28 digits decide
\* `health < Decimal::ONE` exactly, so it is total_assets < total_liabs.
MarginfiLoopBody(total_assets, total_liabs, max_slippage, checks) ==
    LET max_liquidatable == DivSmall(Resize(total_liabs, 64), 2)
        estimated_profit == estimate_profit(max_liquidatable, MarginfiBonusBps,
                                FromNat(ScanGasFee, 64), max_slippage * 100)
        health == [kind |-> "quotient", num |-> total_assets, den |-> total_liabs]
        opp == [ protocol                  |-> "Marginfi",
                 health_factor             |-> health,
                 max_liquidatable          |-> max_liquidatable,
                 liquidation_bonus_bps     |-> MarginfiBonusBps,
                 estimated_profit_lamports |-> estimated_profit.value ]
    IN  IF IsZero(total_liabs) \/ IsZero(total_assets)
        THEN [status |-> "done", liquidatable |-> FALSE, opportunities |-> <<>>]
        ELSE IF ~Less(total_assets, total_liabs)
        THEN [status |-> "done", liquidatable |-> FALSE, opportunities |-> <<>>]
        ELSE IF estimated_profit.overflow /\ checks
        THEN [status |-> "panic", liquidatable |-> TRUE, opportunities |-> <<>>]
        ELSE IF IsPositiveI64(estimated_profit.value)
        THEN [status |-> "done", liquidatable |-> TRUE, opportunities |-> <<opp>>]
        ELSE [status |-> "done", liquidatable |-> TRUE, opportunities |-> <<>>]

\* The loop body in the build at hand.
MarginfiEvaluate(total_assets, total_liabs, max_slippage) ==
    MarginfiLoopBody(total_assets, total_liabs, max_slippage, overflow_checks)

(***************************************************************************)
(* The evaluation specification: one call per behaviour, its arguments     *)
(* drawn from sample values that include the scales the scanner meets and  *)
(* the edges of the integer types.                                         *)
(***************************************************************************)

\* 2^k on `bits` bits.
PowerOfTwo(k, bits) == FromBits([i \in 1..bits |-> IF i = k + 1 THEN 1 ELSE 0], bits)

\* n * 10^12 on 128 bits.
TimesKaminoScale(n) ==
    MulSmall(MulSmall(MulSmall(FromNat(n, 128), 10000, 128), 10000, 128), 10000, 128)

\* 2^bits - 1, the largest value of the unsigned type.
AllOnes(bits) == [j \in 1..Limbs(bits) |-> 255]

\* Scaled u128 values a Kamino obligation may hold.
SfSamples ==
    { FromNat(0, 128), FromNat(1, 128), FromNat(2000000, 128),
      TimesKaminoScale(1), TimesKaminoScale(2),
      TimesKaminoScale(1000000), TimesKaminoScale(2000000),
      PowerOfTwo(53, 128), WrappingAdd(PowerOfTwo(53, 128), <<1>>),
      PowerOfTwo(100, 128), AllOnes(128) }

\* Sums of Marginfi balances (i128, never negative, below 2^67).
BalanceSamples ==
    { FromNat(0, 128), FromNat(1, 128), FromNat(1000000, 128),
      FromNat(2000000, 128), PowerOfTwo(66, 128) }

\* config.max_slippage_percent: validate() admits 0..10.
SlippageSamples == {0, 3, 10}

U64Samples ==
    { FromNat(0, 64), FromNat(1, 64), FromNat(5000, 64), FromNat(1000000, 64),
      PowerOfTwo(62, 64), PowerOfTwo(63, 64), AllOnes(64) }

BpsSamples == {0, 1, 250, 300, 500, 65535}

(***************************************************************************)
(* liquidator.rs, arbitrage.rs: the two executors.  Tasks call             *)
(* Liquidator::execute or ArbitrageExecutor::execute; every RPC or HTTP    *)
(* call is one step, so calls of different tasks interleave.  Account      *)
(* lists and amounts of the flash-loan instructions are not part of the    *)
(* state: an instruction is its program, its name and, for a repay, the    *)
(* borrow index byte that ends its data.                                   *)
(***************************************************************************)

\* Tasks that call Liquidator::execute concurrently.
NumLiquidationTasks == 2

LiquidationTasks == 1..NumLiquidationTasks

\* The task that calls ArbitrageExecutor::execute.
ArbitrageTasks == {0}

Tasks == LiquidationTasks \cup ArbitrageTasks

NoOpportunity == [kind |-> "none"]

\* LiquidationOpportunity values as the scanners emit them, and one of a
\* protocol execute_real does not know.
LiquidationOpportunities ==
    { [kind |-> "liquidation", protocol |-> "Kamino", liab_amount |-> 2000000,
       max_liquidatable |-> 1000000,
       estimated_profit_lamports |-> FromNat(15000, 64)],
      [kind |-> "liquidation", protocol |-> "Marginfi", liab_amount |-> 2000000,
       max_liquidatable |-> 1000000,
       estimated_profit_lamports |-> FromNat(20000, 64)],
      [kind |-> "liquidation", protocol |-> "Solend", liab_amount |-> 500000,
       max_liquidatable |-> 250000,
       estimated_profit_lamports |-> FromNat(7500, 64)] }

\* ArbitrageOpportunity values: find_cross_dex_arb sets expected_profit to a
\* positive i64 less the flash-loan fee, so it is below 2^63.
ArbitrageOpportunities ==
    { [kind |-> "arbitrage", token_in |-> "USDT",
       expected_profit |-> WrappingSub(PowerOfTwo(63, 64), FromNat(46, 64))],
      [kind |-> "arbitrage", token_in |-> "BONK",
       expected_profit |-> FromNat(1, 64)] }

NoResult == [kind |-> "none"]

\* Err(anyhow!(..)) and the errors `?` propagates.
Err(e) == [kind |-> "Err", error |-> e]

\* A failed attempt reported without its error text.
Failed_NoText(e) ==
    [kind |-> "Ok", success |-> FALSE, signature |-> "None",
     profit |-> FromNat(0, 64), error |-> "None"]

\* Ok(LiquidationResult {..}) / Ok(ArbitrageResult {..}) of a failed attempt.
Failed(e) ==
    [kind |-> "Ok", success |-> FALSE, signature |-> "None",
     profit |-> FromNat(0, 64), error |-> e]

\* Ok(..) of a confirmed transaction.
Confirmed(profit) ==
    [kind |-> "Ok", success |-> TRUE, signature |-> "Some",
     profit |-> profit, error |-> "None"]

\* Liquidator::simulate with a zero profit.
simulate_ZeroProfit(o) ==
    [kind |-> "Ok", success |-> TRUE, signature |-> "None",
     profit |-> FromNat(0, 64), error |-> "None"]

\* Liquidator::simulate: the dry-run result.
simulate(o) ==
    [kind |-> "Ok", success |-> TRUE, signature |-> "None",
     profit |-> o.estimated_profit_lamports, error |-> "None"]

\* ArbitrageExecutor::execute, dry-run branch.
ArbitrageDryRun(o) ==
    [kind |-> "Ok", success |-> TRUE, signature |-> "None",
     profit |-> AsI64(o.expected_profit), error |-> "None"]

\* A compare_exchange that always succeeds.
compare_exchange_AlwaysOk(current, expected, new) ==
    [ok |-> TRUE, value |-> new]

\* AtomicBool::compare_exchange(expected, new, SeqCst, SeqCst).
compare_exchange(current, expected, new) ==
    IF current = expected THEN [ok |-> TRUE, value |-> new]
    ELSE [ok |-> FALSE, value |-> current]

\* The flag after execute() with the store skipped when the attempt erred.
StoreAfterAttempt_SkippedOnErr(r) == r.kind = "Err"

\* The flag after `EXECUTING.store(false, SeqCst)`, which execute() runs
\* whatever execute_internal returned.
StoreAfterAttempt(r) == FALSE

\* A check of the simulation that looks at the transport only.
SimulationClean_IgnoresErr(outcome) == outcome # "call_failed"

\* simulate_transaction returned Ok and `sim_result.value.err` is None.
SimulationClean(outcome) == outcome = "clean"

SimulationOutcomes == {"clean", "failed", "call_failed"}

flash_borrow_ix == [program_id |-> "KLend", ix |-> "flash_borrow_reserve_liquidity"]

flash_repay_ix(borrow_instruction_index) ==
    [program_id |-> "KLend", ix |-> "flash_repay_reserve_liquidity",
     borrow_instruction_index |-> borrow_instruction_index]

kamino_liquidate_ix(liquidity_amount) ==
    [program_id |-> "KLend",
     ix |-> "liquidate_obligation_and_redeem_reserve_collateral",
     liquidity_amount |-> liquidity_amount]

marginfi_liquidate_ix(asset_amount) ==
    [program_id |-> "MFv2", ix |-> "lending_account_liquidate",
     asset_amount |-> asset_amount]

\* The Kamino list with a repay that names the second instruction.
KaminoInstructions_WrongIndex(o) ==
    <<flash_borrow_ix, kamino_liquidate_ix(o.liab_amount), flash_repay_ix(1)>>

\* execute_kamino_liquidation: `vec![flash_borrow_ix, liquidate_ix, flash_repay_ix]`.
KaminoInstructions(o) ==
    <<flash_borrow_ix, kamino_liquidate_ix(o.liab_amount), flash_repay_ix(0)>>

\* execute_marginfi_liquidation: `vec![liquidate_ix]`.
MarginfiInstructions(o) == <<marginfi_liquidate_ix(o.max_liquidatable)>>

\* execute_jupiter_swap: `vec![flash_borrow_ix]` then `push(flash_repay_ix)`;
\* the instructions of the decoded Jupiter transaction are not added.
ArbitrageInstructions(o) == Append(<<flash_borrow_ix>>, flash_repay_ix(0))

\* ArbitrageExecutor::get_reserve_for_mint knows USDC, SOL and USDT.
HasReserve(mint) == mint \in {"USDC", "SOL", "USDT"}

\* The state both executors are constructed in, and the state of a task
\* between two execute() calls.
InitExec ==
    /\ EXECUTING = FALSE
    /\ pc = [t \in Tasks |-> "idle"]
    /\ opportunity = [t \in Tasks |-> NoOpportunity]
    /\ calls = [t \in Tasks |-> <<>>]
    /\ tx = [t \in Tasks |-> <<>>]
    /\ sim = [t \in Tasks |-> "none"]
    /\ result = [t \in Tasks |-> NoResult]

\* The task makes one RPC / HTTP call.
Call(t, name) == calls' = [calls EXCEPT ![t] = Append(@, name)]

\* The call returns `r` from the function that was running.
Returns(t, r, at) ==
    /\ result' = [result EXCEPT ![t] = r]
    /\ pc' = [pc EXCEPT ![t] = at]

\* Liquidator::execute, up to the call of execute_internal.
Execute(t, o) ==
    /\ pc[t] = "idle"
    /\ LET cas == compare_exchange(EXECUTING, FALSE, TRUE)
       IN  /\ EXECUTING' = cas.value
           /\ IF cas.ok
              THEN /\ pc' = [pc EXCEPT ![t] = "execute_internal"]
                   /\ UNCHANGED result
              ELSE Returns(t, Err("Liquidation already in progress"), "returned")
    /\ opportunity' = [opportunity EXCEPT ![t] = o]
    /\ UNCHANGED <<dry_run, calls, tx, sim>>
    /\ UNCHANGED <<evalVars, limiterVars, scanVars, pollVars>>

\* Liquidator::execute_internal: the dry-run switch.
ExecuteInternal(t) ==
    /\ pc[t] = "execute_internal"
    /\ IF dry_run
       THEN Returns(t, simulate(opportunity[t]), "store")
       ELSE /\ pc' = [pc EXCEPT ![t] = "execute_real"]
            /\ UNCHANGED result
    /\ UNCHANGED <<EXECUTING, dry_run, opportunity, calls, tx, sim>>
    /\ UNCHANGED <<evalVars, limiterVars, scanVars, pollVars>>

\* Liquidator::execute_real: the balance query and the match on the protocol.
BalanceBefore(t) ==
    /\ pc[t] = "execute_real"
    /\ Call(t, "get_balance")
    /\ \E ok \in BOOLEAN :
         IF ~ok THEN Returns(t, Err("get_balance"), "store")
         ELSE IF opportunity[t].protocol = "Kamino"
         THEN pc' = [pc EXCEPT ![t] = "execute_kamino_liquidation"] /\ UNCHANGED result
         ELSE IF opportunity[t].protocol = "Marginfi"
         THEN pc' = [pc EXCEPT ![t] = "execute_marginfi_liquidation"] /\ UNCHANGED result
         ELSE Returns(t, Failed("Unsupported protocol"), "store")
    /\ UNCHANGED <<EXECUTING, dry_run, opportunity, tx, sim>>
    /\ UNCHANGED <<evalVars, limiterVars, scanVars, pollVars>>

\* The instruction list is assembled, then get_latest_blockhash()? and sign.
BuildAndSign(t, at, instructions, simulating, failed) ==
    /\ pc[t] = at
    /\ tx' = [tx EXCEPT ![t] = instructions]
    /\ Call(t, "get_latest_blockhash")
    /\ \E ok \in BOOLEAN :
         IF ok THEN pc' = [pc EXCEPT ![t] = simulating] /\ UNCHANGED result
         ELSE failed
    /\ UNCHANGED <<EXECUTING, dry_run, opportunity, sim>>
    /\ UNCHANGED <<evalVars, limiterVars, scanVars, pollVars>>

\* `match self.rpc_client.simulate_transaction(&tx)`.
Simulate(t, at, sending, failedAt) ==
    /\ pc[t] = at
    /\ Call(t, "simulate_transaction")
    /\ \E outcome \in SimulationOutcomes :
         /\ sim' = [sim EXCEPT ![t] = outcome]
         /\ IF SimulationClean(outcome)
            THEN pc' = [pc EXCEPT ![t] = sending] /\ UNCHANGED result
            ELSE Returns(t, Failed(IF outcome = "failed" THEN "Simulation failed"
                                   ELSE "Simulation error"), failedAt)
    /\ UNCHANGED <<EXECUTING, dry_run, opportunity, tx>>
    /\ UNCHANGED <<evalVars, limiterVars, scanVars, pollVars>>

\* send_and_confirm_transaction(&tx).
Send(t, at, confirmed, failed) ==
    /\ pc[t] = at
    /\ Call(t, "send_and_confirm_transaction")
    /\ \E ok \in BOOLEAN : IF ok THEN confirmed ELSE failed
    /\ UNCHANGED <<EXECUTING, dry_run, opportunity, tx, sim>>
    /\ UNCHANGED <<evalVars, limiterVars, scanVars, pollVars>>

\* execute_kamino_liquidation, up to the signed transaction.
KaminoBuild(t) ==
    BuildAndSign(t, "execute_kamino_liquidation", KaminoInstructions(opportunity[t]),
                 "kamino_simulate", Returns(t, Err("get_latest_blockhash"), "store"))

KaminoSimulate(t) ==
    Simulate(t, "kamino_simulate", "kamino_send", "store")

KaminoSend(t) ==
    Send(t, "kamino_send",
         Returns(t, Confirmed(opportunity[t].estimated_profit_lamports), "balance_after"),
         Returns(t, Failed("Transaction failed"), "store"))

\* execute_marginfi_liquidation, up to the signed transaction.
MarginfiBuild(t) ==
    BuildAndSign(t, "execute_marginfi_liquidation", MarginfiInstructions(opportunity[t]),
                 "marginfi_simulate", Returns(t, Err("get_latest_blockhash"), "store"))

MarginfiSimulate(t) ==
    Simulate(t, "marginfi_simulate", "marginfi_send", "store")

MarginfiSend(t) ==
    Send(t, "marginfi_send",
         Returns(t, Confirmed(opportunity[t].estimated_profit_lamports), "balance_after"),
         Returns(t, Failed("Transaction failed"), "store"))

\* execute_real after a successful result: the second balance query.
BalanceAfter(t) ==
    /\ pc[t] = "balance_after"
    /\ Call(t, "get_balance")
    /\ \E ok \in BOOLEAN :
         IF ok THEN pc' = [pc EXCEPT ![t] = "store"] /\ UNCHANGED result
         ELSE Returns(t, Err("get_balance"), "store")
    /\ UNCHANGED <<EXECUTING, dry_run, opportunity, tx, sim>>
    /\ UNCHANGED <<evalVars, limiterVars, scanVars, pollVars>>

\* Liquidator::execute after execute_internal: the store, then the return.
Store(t) ==
    /\ pc[t] = "store"
    /\ EXECUTING' = StoreAfterAttempt(result[t])
    /\ pc' = [pc EXCEPT ![t] = "returned"]
    /\ UNCHANGED <<dry_run, opportunity, calls, tx, sim, result>>
    /\ UNCHANGED <<evalVars, limiterVars, scanVars, pollVars>>

\* ArbitrageExecutor::execute: dry-run result, or on to execute_jupiter_swap.
ArbitrageExecute(t, o) ==
    /\ pc[t] = "idle"
    /\ opportunity' = [opportunity EXCEPT ![t] = o]
    /\ IF dry_run
       THEN Returns(t, ArbitrageDryRun(o), "returned")
       ELSE /\ pc' = [pc EXCEPT ![t] = "get_quote"]
            /\ UNCHANGED result
    /\ UNCHANGED <<EXECUTING, dry_run, calls, tx, sim>>
    /\ UNCHANGED <<evalVars, limiterVars, scanVars, pollVars>>

\* execute_jupiter_swap: the quote and the profitability check on it.
ArbitrageQuote(t) ==
    /\ pc[t] = "get_quote"
    /\ Call(t, "get_quote")
    /\ \E answer \in {"ok", "error", "Not profitable"} :
         IF answer = "ok"
         THEN pc' = [pc EXCEPT ![t] = "get_swap_transaction"] /\ UNCHANGED result
         ELSE Returns(t, Failed(answer), "returned")
    /\ UNCHANGED <<EXECUTING, dry_run, opportunity, tx, sim>>
    /\ UNCHANGED <<evalVars, limiterVars, scanVars, pollVars>>

\* execute_jupiter_swap: the swap transaction and its two decodings.
ArbitrageSwap(t) ==
    /\ pc[t] = "get_swap_transaction"
    /\ Call(t, "get_swap_transaction")
    /\ \E answer \in {"ok", "error", "Failed to decode transaction",
                      "Failed to deserialize transaction"} :
         IF answer = "ok"
         THEN pc' = [pc EXCEPT ![t] = "get_reserve_for_mint"] /\ UNCHANGED result
         ELSE Returns(t, Failed(answer), "returned")
    /\ UNCHANGED <<EXECUTING, dry_run, opportunity, tx, sim>>
    /\ UNCHANGED <<evalVars, limiterVars, scanVars, pollVars>>

\* execute_jupiter_swap: `get_reserve_for_mint(&opp.token_in)?` fails.
ArbitrageNoReserve(t) ==
    /\ pc[t] = "get_reserve_for_mint"
    /\ ~HasReserve(opportunity[t].token_in)
    /\ Returns(t, Failed("No reserve found for mint"), "returned")
    /\ UNCHANGED <<EXECUTING, dry_run, opportunity, calls, tx, sim>>
    /\ UNCHANGED <<evalVars, limiterVars, scanVars, pollVars>>

\* execute_jupiter_swap, from the reserve to the signed transaction.
ArbitrageBuild(t) ==
    /\ pc[t] = "get_reserve_for_mint"
    /\ HasReserve(opportunity[t].token_in)
    /\ BuildAndSign(t, "get_reserve_for_mint", ArbitrageInstructions(opportunity[t]),
                    "arbitrage_simulate", Returns(t, Failed("get_latest_blockhash"), "returned"))

ArbitrageSimulate(t) ==
    Simulate(t, "arbitrage_simulate", "arbitrage_send", "returned")

ArbitrageSend(t) ==
    Send(t, "arbitrage_send",
         Returns(t, Confirmed(AsI64(opportunity[t].expected_profit)), "returned"),
         Returns(t, Failed("Transaction failed"), "returned"))

\* The caller takes the result; its next call starts from a clean slate.
NextCall(t) ==
    /\ pc[t] = "returned"
    /\ pc' = [pc EXCEPT ![t] = "idle"]
    /\ opportunity' = [opportunity EXCEPT ![t] = NoOpportunity]
    /\ calls' = [calls EXCEPT ![t] = <<>>]
    /\ tx' = [tx EXCEPT ![t] = <<>>]
    /\ sim' = [sim EXCEPT ![t] = "none"]
    /\ result' = [result EXCEPT ![t] = NoResult]
    /\ UNCHANGED <<EXECUTING, dry_run>>
    /\ UNCHANGED <<evalVars, limiterVars, scanVars, pollVars>>

(***************************************************************************)
(* utils.rs: the RateLimiter.  Time is counted in ticks, TicksPerSecond to *)
(* the second.  PositionScanner keeps its limiter behind a Mutex and wait  *)
(* takes &mut self, so one call of wait() runs at a time: the caller that  *)
(* sleeps keeps the limiter until it returns.                              *)
(***************************************************************************)

\* Clock ticks per second.
TicksPerSecond == 2

\* The clock stops here.
MaxTime == 6

\* The largest ceiling a limiter is built with.
MaxCeiling == 2

\* PositionScanner::new builds its limiter with RateLimiter::new(8).
ScannerCeiling == 8

\* RateLimiter::new(rps) at clock reading t.
RateLimiterNew(rps, t) == [requests_per_second |-> rps, last_request |-> t, count |-> 0]

\* `last_request.elapsed().as_secs()`: whole seconds, the rest is dropped.
ElapsedSecs(l, t) == (t - l.last_request) \div TicksPerSecond

\* The first `if` of wait(): a second or more has passed since last_request.
AfterWindowCheck(l, t) ==
    IF ElapsedSecs(l, t) >= 1 THEN [l EXCEPT !.count = 0, !.last_request = t] ELSE l

\* `self.count += 1`, after which wait() returns.
Admit(l) == [l EXCEPT !.count = l.count + 1]

\* No call of wait() is under way.
Idle == [at |-> "idle", sleep_until |-> 0]

\* A limiter that no call of wait() has reached.
InitLimiter(rps) ==
    /\ now = 0
    /\ rate_limiter = RateLimiterNew(rps, 0)
    /\ limiter_pc = Idle
    /\ admitted = <<>>

\* Time passes.
Tick ==
    /\ now < MaxTime
    /\ now' = now + 1
    /\ UNCHANGED <<rate_limiter, limiter_pc, admitted>>
    /\ UNCHANGED <<evalVars, execVars, scanVars, pollVars>>

\* wait() with the ceiling not reached: both `if`s, the increment, the return.
WaitAdmit ==
    /\ limiter_pc = Idle
    /\ LET l == AfterWindowCheck(rate_limiter, now)
       IN  /\ l.count < l.requests_per_second
           /\ rate_limiter' = Admit(l)
    /\ admitted' = Append(admitted, [at |-> now, slept |-> FALSE])
    /\ UNCHANGED <<now, limiter_pc>>
    /\ UNCHANGED <<evalVars, execVars, scanVars, pollVars>>

\* wait() with the ceiling reached: the caller starts sleep(1 s).  (Only
\* while the clock can still reach the end of the sleep.)
WaitSleep ==
    /\ limiter_pc = Idle
    /\ now + TicksPerSecond <= MaxTime
    /\ LET l == AfterWindowCheck(rate_limiter, now)
       IN  /\ l.count >= l.requests_per_second
           /\ rate_limiter' = l
    /\ limiter_pc' = [at |-> "sleep", sleep_until |-> now + TicksPerSecond]
    /\ UNCHANGED <<now, admitted>>
    /\ UNCHANGED <<evalVars, execVars, scanVars, pollVars>>

\* The sleep is over (a second or more after it began): the counter is
\* reset, the call is counted and wait() returns.
WaitWake ==
    /\ limiter_pc.at = "sleep"
    /\ now >= limiter_pc.sleep_until
    /\ rate_limiter' = Admit([rate_limiter EXCEPT !.count = 0, !.last_request = now])
    /\ limiter_pc' = Idle
    /\ admitted' = Append(admitted, [at |-> now, slept |-> TRUE])
    /\ UNCHANGED now
    /\ UNCHANGED <<evalVars, execVars, scanVars, pollVars>>

(***************************************************************************)
(* scanner.rs, main.rs: scan_all, the two protocol tasks it spawns and the *)
(* poll loop that takes its result.  A task handles one account per step;  *)
(* the accounts it has gone through are kept in `accounts`.                *)
(***************************************************************************)

\* The protocols scan_all has a task for.
Protocols == {"Kamino", "Marginfi"}

\* `take(batch_size)`: the most accounts one task goes through.
MaxBatchSize == 2

\* Account data from which from_account_data / borsh::from_slice makes nothing.
Undecodable == [decodes |-> FALSE]

\* Kamino accounts: undecodable; in debt and healthy; liquidatable with a
\* debt of 2 * 10^6 and of 4 * 10^6; liquidatable with a debt whose bonus
\* product leaves the i64 range.
KaminoAccountSamples ==
    { Undecodable,
      [decodes |-> TRUE,
       obligation |-> [borrowed_assets_market_value_sf |-> TimesKaminoScale(1000000),
                       unhealthy_borrow_value_sf |-> TimesKaminoScale(2000000)]],
      [decodes |-> TRUE,
       obligation |-> [borrowed_assets_market_value_sf |-> TimesKaminoScale(2000000),
                       unhealthy_borrow_value_sf |-> TimesKaminoScale(1000000)]],
      [decodes |-> TRUE,
       obligation |-> [borrowed_assets_market_value_sf |-> TimesKaminoScale(4000000),
                       unhealthy_borrow_value_sf |-> TimesKaminoScale(1000000)]],
      [decodes |-> TRUE,
       obligation |-> [borrowed_assets_market_value_sf |-> PowerOfTwo(100, 128),
                       unhealthy_borrow_value_sf |-> FromNat(1, 128)]] }

\* Marginfi accounts: undecodable, healthy, unhealthy.
MarginfiAccountSamples ==
    { Undecodable,
      [decodes |-> TRUE, total_assets |-> FromNat(2000000, 128),
       total_liabs |-> FromNat(1000000, 128)],
      [decodes |-> TRUE, total_assets |-> FromNat(1000000, 128),
       total_liabs |-> FromNat(2000000, 128)] }

AccountSamples(p) ==
    IF p = "Kamino" THEN KaminoAccountSamples ELSE MarginfiAccountSamples

\* BotConfig::default(), as far as scan_all reads it.
DefaultConfig ==
    [ min_profit_threshold |-> FromNat(5000, 64),
      max_slippage_percent |-> 3,
      batch_size           |-> MaxBatchSize,
      enabled_protocols    |-> {"Kamino", "Marginfi", "JupiterLend"} ]

\* Configurations from_env can produce: MIN_PROFIT_THRESHOLD is any u64,
\* MAX_SLIPPAGE_PERCENT any u8 up to 10.
ConfigSamples ==
    { [DefaultConfig EXCEPT !.min_profit_threshold = m, !.max_slippage_percent = s] :
        m \in {FromNat(20000, 64), AllOnes(64)}, s \in {0, 3} }

\* A task scan_all has not spawned.
NotSpawned ==
    [ pc |-> "not_spawned", outcome |-> "none", accounts |-> <<>>,
      opportunities |-> <<>>, parsed_count |-> 0, with_debt_count |-> 0,
      liquidatable_count |-> 0, rpc_calls |-> <<>> ]

\* The task as join_set.spawn starts it.
Spawned == [NotSpawned EXCEPT !.pc = "fetching"]

\* The loop body of a protocol task for one decodable account: what it
\* computes, and whether the account counts as having debt.
LoopBody(p, a, max_slippage, checks) ==
    IF p = "Kamino"
    THEN [ eval      |-> KaminoLoopBody(a.obligation, max_slippage, checks),
           with_debt |-> ~IsZero(a.obligation.borrowed_assets_market_value_sf) ]
    ELSE [ eval      |-> MarginfiLoopBody(a.total_assets, a.total_liabs,
                                          max_slippage, checks),
           with_debt |-> ~IsZero(a.total_liabs) ]

\* LoopBody over the sampled accounts, slippages and builds, computed once.
LoopBodyTable ==
    [p \in Protocols |->
        [a \in AccountSamples(p) \ {Undecodable} |->
            [s \in {c.max_slippage_percent : c \in ConfigSamples} |->
                [checks \in BOOLEAN |-> LoopBody(p, a, s, checks)]]]]

\* The loop body on a sampled account in the build at hand.
EvaluateAccount(p, a, max_slippage) ==
    LoopBodyTable[p][a][max_slippage][overflow_checks]

\* scan_all with the collected opportunities dropped when a task failed.
CollectResult_DropOnFailure(opportunities, task) ==
    IF task.outcome = "Ok" THEN opportunities \o task.opportunities ELSE <<>>

\* One turn of `while let Some(result) = join_set.join_next().await`:
\* Ok(Ok(opps)) is appended; Ok(Err(e)) and Err(e) are logged.
CollectResult(opportunities, task) ==
    IF task.outcome = "Ok" THEN opportunities \o task.opportunities ELSE opportunities

\* The elements of a sequence that satisfy `keep`, in order; keep is the
\* set of positions to retain.
RetainPositions(xs, keep) ==
    LET rank(i) == Cardinality({j \in keep : j <= i})
    IN  [k \in 1..Cardinality(keep) |-> xs[CHOOSE i \in keep : rank(i) = k]]

\* `opportunities.retain(|o| o.estimated_profit_lamports >= min_profit)` with
\* `min_profit = min_profit_threshold as i64`.
RetainMinProfit(opportunities, min_profit_threshold) ==
    LET min_profit == AsI64(min_profit_threshold)
    IN  RetainPositions(opportunities,
            {i \in 1..Len(opportunities) :
                ~SignedLess(opportunities[i].estimated_profit_lamports, min_profit)})

\* A sort that leaves the vector as it was.
SortByProfit_Unsorted(opportunities) == opportunities

\* `sort_by(|a, b| b.estimated_profit_lamports.cmp(&a.estimated_profit_lamports))`:
\* a stable sort, so an element comes after the elements with a higher
\* profit and after the earlier elements with the same profit.
SortByProfit(opportunities) ==
    LET n       == Len(opportunities)
        profit(i) == opportunities[i].estimated_profit_lamports
        rank(i) == Cardinality({j \in 1..n : SignedLess(profit(i), profit(j))})
                   + Cardinality({j \in 1..i : profit(j) = profit(i)})
    IN  [k \in 1..n |-> opportunities[CHOOSE i \in 1..n : rank(i) = k]]

\* The scanner before a scan: nothing spawned, nothing collected.
InitScan(c) ==
    /\ config = c
    /\ scan_pc = "idle"
    /\ scan_task = [p \in Protocols |-> NotSpawned]
    /\ collected = <<>>
    /\ offered = <<>>

\* scan_all up to the join loop: a task is spawned for each enabled protocol.
ScanAll ==
    /\ scan_pc = "idle"
    /\ scan_pc' = "join_next"
    /\ scan_task' = [p \in Protocols |->
                        IF p \in config.enabled_protocols THEN Spawned ELSE NotSpawned]
    /\ collected' = <<>>
    /\ UNCHANGED <<config, offered>>
    /\ UNCHANGED <<evalVars, execVars, limiterVars, pollVars>>

\* get_program_accounts_with_config(..)?: the task goes on to its loop, or
\* ends with the RPC error (a timeout is one).
FetchAccounts(p) ==
    /\ scan_task[p].pc = "fetching"
    /\ \E ok \in BOOLEAN :
         scan_task' = [scan_task EXCEPT ![p] =
            [@ EXCEPT !.rpc_calls = Append(@, "get_program_accounts_with_config"),
                      !.pc = IF ok THEN "scanning" ELSE "finished",
                      !.outcome = IF ok THEN "none" ELSE "Err"]]
    /\ UNCHANGED <<config, scan_pc, collected, offered>>
    /\ UNCHANGED <<evalVars, execVars, limiterVars, pollVars>>

\* One turn of the task's loop.  An account that does not decode changes
\* nothing; a panic in the evaluation ends the task, which join_next then
\* reports as a JoinError; an emitted opportunity costs the two get_account
\* calls of fetch_reserve_mints / fetch_marginfi_bank_mints.
ScanAccount(p, a) ==
    /\ scan_task[p].pc = "scanning"
    /\ Len(scan_task[p].accounts) < config.batch_size
    /\ LET task == [scan_task[p] EXCEPT !.accounts = Append(@, a)]
           r    == EvaluateAccount(p, a, config.max_slippage_percent)
       IN  scan_task' = [scan_task EXCEPT ![p] =
              IF ~a.decodes THEN task
              ELSE IF r.eval.status = "panic"
              THEN [task EXCEPT !.pc = "finished", !.outcome = "JoinError",
                                !.opportunities = <<>>]
              ELSE [task EXCEPT
                      !.parsed_count = @ + 1,
                      !.with_debt_count = IF r.with_debt THEN @ + 1 ELSE @,
                      !.liquidatable_count = IF r.eval.liquidatable THEN @ + 1 ELSE @,
                      !.opportunities = @ \o r.eval.opportunities,
                      !.rpc_calls = IF r.eval.opportunities = <<>> THEN @
                                    ELSE @ \o <<"get_account", "get_account">>]]
    /\ UNCHANGED <<config, scan_pc, collected, offered>>
    /\ UNCHANGED <<evalVars, execVars, limiterVars, pollVars>>

\* The loop is over (no account left, or batch_size reached): the statistics
\* are logged and the task returns Ok(opportunities).
ScanTaskReturn(p) ==
    /\ scan_task[p].pc = "scanning"
    /\ scan_task' = [scan_task EXCEPT ![p] = [@ EXCEPT !.pc = "finished", !.outcome = "Ok"]]
    /\ UNCHANGED <<config, scan_pc, collected, offered>>
    /\ UNCHANGED <<evalVars, execVars, limiterVars, pollVars>>

\* join_next() yields a task that has ended, in whatever order they end.
JoinNext(p) ==
    /\ scan_pc = "join_next"
    /\ scan_task[p].pc = "finished"
    /\ collected' = CollectResult(collected, scan_task[p])
    /\ scan_task' = [scan_task EXCEPT ![p] = [@ EXCEPT !.pc = "joined"]]
    /\ UNCHANGED <<config, scan_pc, offered>>
    /\ UNCHANGED <<evalVars, execVars, limiterVars, pollVars>>

\* join_next() yields None: retain, sort, Ok(opportunities).
ScanAllReturn ==
    /\ scan_pc = "join_next"
    /\ \A p \in Protocols : scan_task[p].pc \in {"not_spawned", "joined"}
    /\ collected' = SortByProfit(RetainMinProfit(collected, config.min_profit_threshold))
    /\ scan_pc' = "returned"
    /\ UNCHANGED <<config, scan_task, offered>>
    /\ UNCHANGED <<evalVars, execVars, limiterVars, pollVars>>

\* The poll loop's `for (i, opp) in opportunities.iter().enumerate()`:
\* the next entry goes to liquidator.execute.
Offer ==
    /\ scan_pc = "returned"
    /\ Len(offered) < Len(collected)
    /\ offered' = Append(offered, collected[Len(offered) + 1])
    /\ UNCHANGED <<config, scan_pc, scan_task, collected>>
    /\ UNCHANGED <<evalVars, execVars, limiterVars, pollVars>>

\* The list is used up: the loop goes round to the next poll tick.
NextPoll ==
    /\ scan_pc = "returned"
    /\ Len(offered) = Len(collected)
    /\ scan_pc' = "idle"
    /\ scan_task' = [p \in Protocols |-> NotSpawned]
    /\ collected' = <<>>
    /\ offered' = <<>>
    /\ UNCHANGED config
    /\ UNCHANGED <<evalVars, execVars, limiterVars, pollVars>>

Init ==
    /\ overflow_checks = FALSE
    /\ ev_in = [fn |-> "none"]
    /\ ev_out = NotEvaluated
    /\ dry_run \in BOOLEAN
    /\ InitExec
    /\ InitLimiter(ScannerCeiling)
    /\ InitScan(DefaultConfig)
    /\ InitStats

Next ==
    \/ \E t \in LiquidationTasks, o \in LiquidationOpportunities : Execute(t, o)
    \/ \E t \in LiquidationTasks : ExecuteInternal(t)
    \/ \E t \in LiquidationTasks : BalanceBefore(t)
    \/ \E t \in LiquidationTasks : KaminoBuild(t)
    \/ \E t \in LiquidationTasks : KaminoSimulate(t)
    \/ \E t \in LiquidationTasks : KaminoSend(t)
    \/ \E t \in LiquidationTasks : MarginfiBuild(t)
    \/ \E t \in LiquidationTasks : MarginfiSimulate(t)
    \/ \E t \in LiquidationTasks : MarginfiSend(t)
    \/ \E t \in LiquidationTasks : BalanceAfter(t)
    \/ \E t \in LiquidationTasks : Store(t)
    \/ \E t \in ArbitrageTasks, o \in ArbitrageOpportunities : ArbitrageExecute(t, o)
    \/ \E t \in ArbitrageTasks : ArbitrageQuote(t)
    \/ \E t \in ArbitrageTasks : ArbitrageSwap(t)
    \/ \E t \in ArbitrageTasks : ArbitrageNoReserve(t)
    \/ \E t \in ArbitrageTasks : ArbitrageBuild(t)
    \/ \E t \in ArbitrageTasks : ArbitrageSimulate(t)
    \/ \E t \in ArbitrageTasks : ArbitrageSend(t)
    \/ \E t \in Tasks : NextCall(t)

Spec == Init /\ [][Next]_vars

(***************************************************************************)
(* arbitrage.rs: the cross-DEX search of the ArbitrageScanner.  Reserves   *)
(* and amounts are u64 in the code; the samples stay below 2^15.1, where   *)
(* every u128 product of get_amount_out is below 2^31 and no cast changes  *)
(* a value, so they are TLC integers.                                      *)
(***************************************************************************)

\* LiquidityPool::get_amount_out: constant product, the fee taken on the way in.
get_amount_out(pool, amount_in, is_a_to_b) ==
    LET reserve_in  == IF is_a_to_b THEN pool.reserve_a ELSE pool.reserve_b
        reserve_out == IF is_a_to_b THEN pool.reserve_b ELSE pool.reserve_a
        amount_in_with_fee == (amount_in * (10000 - pool.fee_bps)) \div 10000
        numerator   == amount_in_with_fee * reserve_out
        denominator == reserve_in + amount_in_with_fee
    IN  IF reserve_in = 0 \/ reserve_out = 0 THEN 0
        ELSE numerator \div denominator

\* The 53-bit significand of the f64 literal 0.0009, which is
\* 8301034833169298 * 2^-63 (a little below 9/10000).
Significand0009 == <<146, 203, 127, 72, 191, 125, 29, 0>>

\* `(amount as f64 * 0.0009) as u64`: the exact product of the two f64s is
\* rounded to 53 bits, ties to even, then truncated to an integer.
flash_loan_fee(amount) ==
    LET product == MulSmall(Significand0009, amount, 128)
        rounded == U128AsF64(product)
    IN  ToNat(DivSmall(DivSmall(DivSmall(rounded, 2097152), 2097152), 2097152))

\* The pairs (i, j), i # j, in the order the two loops visit them.
PoolPairs(pools) ==
    LET n == Len(pools)
    IN  [k \in 1..(n * (n - 1)) |->
            LET i == ((k - 1) \div (n - 1)) + 1
                r == ((k - 1) % (n - 1)) + 1
            IN  <<i, IF r < i THEN r ELSE r + 1>>]

\* Buy on pool i, sell on pool j: what comes back for `amount`.
RoundTrip(pools, pair, amount) ==
    get_amount_out(pools[pair[2]],
                   get_amount_out(pools[pair[1]], amount, TRUE), FALSE)

\* ArbitrageScanner::find_cross_dex_arb.  `pools` is the HashMap, a function
\* from token pairs to pool lists.  profit_percent and the pool addresses
\* of the path are left out of the record.
find_cross_dex_arb(pools_by_pair, token_a, token_b, amount) ==
    LET key == <<token_a, token_b>> IN
    IF key \notin DOMAIN pools_by_pair THEN [kind |-> "None"]
    ELSE
    LET pools  == pools_by_pair[key]
        pairs  == PoolPairs(pools)
        profit(k) == RoundTrip(pools, pairs[k], amount) - amount
        better == {k \in 1..Len(pairs) :
                      /\ profit(k) > 0
                      /\ \A m \in 1..Len(pairs) : profit(m) <= profit(k)
                      /\ \A m \in 1..(k - 1) : profit(m) < profit(k)}
    IN  IF Len(pools) < 2 \/ better = {} THEN [kind |-> "None"]
        ELSE LET best        == CHOOSE k \in better : TRUE
                 best_profit == profit(best)
                 fee         == flash_loan_fee(amount)
             IN  IF best_profit <= fee THEN [kind |-> "None"]
                 ELSE [kind            |-> "Some",
                       token_in        |-> token_a,
                       token_out       |-> token_a,
                       amount_in       |-> amount,
                       expected_profit |-> best_profit - fee,
                       path            |-> pairs[best],
                       flash_loan_fee  |-> fee]

\* Pools of one pair on two DEXs: balanced, skewed either way, and empty.
PoolSamples ==
    { [reserve_a |-> 20000, reserve_b |-> 20000, fee_bps |-> 25],
      [reserve_a |-> 20000, reserve_b |-> 40000, fee_bps |-> 25],
      [reserve_a |-> 40000, reserve_b |-> 20000, fee_bps |-> 30],
      [reserve_a |-> 0,     reserve_b |-> 20000, fee_bps |-> 30] }

\* Pool lists: refresh_pools stores two pools; a one-pool list is shorter
\* than the search accepts.
PoolLists ==
    {<<p>> : p \in PoolSamples} \cup {<<p, q>> : p \in PoolSamples, q \in PoolSamples}

\* Trial amounts.
AmountSamples == {0, 1, 1000, 10000, 30000}

\* refresh_pools indexes the pools under (sol, usdc); scan asks for
\* (usdc, sol) and (usdt, usdc).
ArbInputs ==
    { [fn |-> "find_cross_dex_arb", pools |-> (<<"SOL", "USDC">> :> l),
       token_a |-> k[1], token_b |-> k[2], amount |-> a] :
         l \in PoolLists, a \in AmountSamples,
         k \in {<<"SOL", "USDC">>, <<"USDC", "SOL">>, <<"USDT", "USDC">>} }

KaminoInputs ==
    { [fn |-> "scan_kamino",
       obligation |-> [borrowed_assets_market_value_sf |-> b,
                       unhealthy_borrow_value_sf |-> u],
       max_slippage |-> s] : b \in SfSamples, u \in SfSamples, s \in SlippageSamples }

MarginfiInputs ==
    { [fn |-> "scan_marginfi", total_assets |-> a, total_liabs |-> l,
       max_slippage |-> s] : a \in BalanceSamples, l \in BalanceSamples,
                             s \in SlippageSamples }

ProfitInputs ==
    { [fn |-> "estimate_profit", liab_amount |-> a, liquidation_bonus_bps |-> b,
       gas_fee |-> g, swap_slippage_bps |-> s] :
         a \in U64Samples, b \in BpsSamples, g \in U64Samples, s \in BpsSamples }

InitEval ==
    /\ overflow_checks \in BOOLEAN
    /\ ev_in \in KaminoInputs \cup MarginfiInputs \cup ProfitInputs \cup ArbInputs
    /\ ev_out = NotEvaluated
    /\ dry_run = TRUE
    /\ InitExec
    /\ InitLimiter(ScannerCeiling)
    /\ InitScan(DefaultConfig)
    /\ InitStats

\* scan_kamino_parallel evaluates one decoded obligation.
ScanKaminoAccount ==
    /\ ev_in.fn = "scan_kamino"
    /\ ~Evaluated
    /\ ev_out' = KaminoEvaluate(ev_in.obligation, ev_in.max_slippage)
    /\ UNCHANGED <<overflow_checks, ev_in>>
    /\ UNCHANGED <<execVars, limiterVars, scanVars, pollVars>>

\* scan_marginfi_parallel evaluates one decoded account.
ScanMarginfiAccount ==
    /\ ev_in.fn = "scan_marginfi"
    /\ ~Evaluated
    /\ ev_out' = MarginfiEvaluate(ev_in.total_assets, ev_in.total_liabs,
                                  ev_in.max_slippage)
    /\ UNCHANGED <<overflow_checks, ev_in>>
    /\ UNCHANGED <<execVars, limiterVars, scanVars, pollVars>>

\* A call of math::estimate_profit.
EstimateProfitCall ==
    /\ ev_in.fn = "estimate_profit"
    /\ ~Evaluated
    /\ LET r == estimate_profit(ev_in.liab_amount, ev_in.liquidation_bonus_bps,
                                ev_in.gas_fee, ev_in.swap_slippage_bps)
       IN  ev_out' = [status |-> IF r.overflow /\ overflow_checks
                                 THEN "panic" ELSE "done",
                      value  |-> r.value]
    /\ UNCHANGED <<overflow_checks, ev_in>>
    /\ UNCHANGED <<execVars, limiterVars, scanVars, pollVars>>

\* A call of ArbitrageScanner::find_cross_dex_arb.
FindCrossDexArb ==
    /\ ev_in.fn = "find_cross_dex_arb"
    /\ ~Evaluated
    /\ ev_out' = [status |-> "done",
                  opp    |-> find_cross_dex_arb(ev_in.pools, ev_in.token_a,
                                                ev_in.token_b, ev_in.amount)]
    /\ UNCHANGED <<overflow_checks, ev_in>>
    /\ UNCHANGED <<execVars, limiterVars, scanVars, pollVars>>

NextEval ==
    \/ ScanKaminoAccount
    \/ ScanMarginfiAccount
    \/ EstimateProfitCall
    \/ FindCrossDexArb

SpecEval == InitEval /\ [][NextEval]_vars

(***************************************************************************)
(* The rate limiter on its own: a limiter of some ceiling, the clock and   *)
(* the calls of wait().                                                    *)
(***************************************************************************)

InitRateLimiter ==
    /\ overflow_checks = FALSE
    /\ ev_in = [fn |-> "none"]
    /\ ev_out = NotEvaluated
    /\ dry_run = TRUE
    /\ InitExec
    /\ \E rps \in 1..MaxCeiling : InitLimiter(rps)
    /\ InitScan(DefaultConfig)
    /\ InitStats

NextRateLimiter == Tick \/ WaitAdmit \/ WaitSleep \/ WaitWake

SpecRateLimiter == InitRateLimiter /\ [][NextRateLimiter]_vars

(***************************************************************************)
(* The scan: a configuration, a build (with or without overflow checks),   *)
(* and poll cycles of scan_all.                                            *)
(***************************************************************************)

InitScanner ==
    /\ overflow_checks \in BOOLEAN
    /\ ev_in = [fn |-> "none"]
    /\ ev_out = NotEvaluated
    /\ dry_run = TRUE
    /\ InitExec
    /\ InitLimiter(ScannerCeiling)
    /\ \E c \in ConfigSamples : InitScan(c)
    /\ InitStats

NextScanner ==
    \/ ScanAll
    \/ \E p \in Protocols : FetchAccounts(p)
    \/ \E p \in Protocols : \E a \in AccountSamples(p) : ScanAccount(p, a)
    \/ \E p \in Protocols : ScanTaskReturn(p)
    \/ \E p \in Protocols : JoinNext(p)
    \/ ScanAllReturn
    \/ Offer
    \/ NextPoll

SpecScanner == InitScanner /\ [][NextScanner]_vars

(***************************************************************************)
(* Claims about the evaluation, checked under SpecEval.                    *)
(***************************************************************************)

\* The Kamino obligation under evaluation has been evaluated.
KaminoEvaluated == ev_in.fn = "scan_kamino" /\ Evaluated

\* C8: a decoded position is eligible exactly when debt_value >
\* unhealthy_threshold_value; when debt_value > unhealthy_threshold_value > 0
\* the computed health_ratio is below 1.0 and the position is eligible; a
\* position with debt_value = 0 produces no opportunity.
C8_EligibleIffDebtAboveThreshold ==
    /\ KaminoEvaluated =>
         LET debt      == ev_in.obligation.borrowed_assets_market_value_sf
             threshold == ev_in.obligation.unhealthy_borrow_value_sf
         IN  /\ ev_out.liquidatable <=> Less(threshold, debt)
             /\ (Less(threshold, debt) /\ ~IsZero(threshold)) =>
                    /\ F64LessThanOne(health_ratio(ev_in.obligation))
                    /\ ev_out.liquidatable
             /\ IsZero(debt) => ev_out.opportunities = <<>>
    /\ (ev_in.fn = "scan_marginfi" /\ Evaluated /\ IsZero(ev_in.total_liabs)) =>
         ev_out.opportunities = <<>>

\* Scenario A's position (debt, threshold) has been evaluated with slippage
\* 300 bps, that is max_slippage_percent = 3; bonus 500 bps and gas 5000 are
\* the scan's constants.
ScenarioA(debt, threshold) ==
    /\ KaminoEvaluated
    /\ ev_in.obligation.borrowed_assets_market_value_sf = debt
    /\ ev_in.obligation.unhealthy_borrow_value_sf = threshold
    /\ ev_in.max_slippage = 3

\* One opportunity is emitted, with max_liquidatable = 1,000,000 and a
\* positive estimated profit.
EmitsOneMillion ==
    /\ ev_out.status = "done"
    /\ Len(ev_out.opportunities) = 1
    /\ IsSmall(ev_out.opportunities[1].max_liquidatable)
    /\ ToNat(ev_out.opportunities[1].max_liquidatable) = 1000000
    /\ IsPositiveI64(ev_out.opportunities[1].estimated_profit_lamports)

\* C9 as stated: debt_value = 2,000,000,000,000 and unhealthy threshold =
\* 1,000,000,000,000 with bonus 500 bps, gas 5000, slippage 300 bps yield
\* max_repayable_debt = 1,000,000 and a positive profit: an opportunity.
C9_ScenarioA_AsStated ==
    ScenarioA(TimesKaminoScale(2), TimesKaminoScale(1)) => EmitsOneMillion

\* C9 amended: the outcome of scenario A (max_repayable_debt = 1,000,000,
\* estimated profit 15,000 > 0, one opportunity) is that of debt_value =
\* 2,000,000 * 10^12 and threshold 1,000,000 * 10^12; with the values as
\* stated the debt in base units is 2 and no opportunity is emitted.
C9_ScenarioA_Amended ==
    /\ ScenarioA(TimesKaminoScale(2000000), TimesKaminoScale(1000000)) =>
         /\ EmitsOneMillion
         /\ ev_out.opportunities[1].estimated_profit_lamports = FromNat(15000, 64)
    /\ ScenarioA(TimesKaminoScale(2), TimesKaminoScale(1)) =>
         /\ ev_out.status = "done"
         /\ ev_out.liquidatable
         /\ ev_out.opportunities = <<>>

\* C9 witness: the scaled scenario has been evaluated and emitted.
C9_Witness ==
    /\ ScenarioA(TimesKaminoScale(2000000), TimesKaminoScale(1000000))
    /\ Len(ev_out.opportunities) = 1

\* x, a two's-complement pattern, sign-extended to `bits` bits.
SignExtend(x, bits) ==
    [j \in 1..Limbs(bits) |->
        IF j <= Len(x) THEN x[j] ELSE IF IsNeg(x) THEN 255 ELSE 0]

\* (liab * bonus / 10000) - gas - (liab * slippage / 10000) over the
\* integers: on 96 bits no step leaves the range.
ExactProfit(liab_amount, bonus_bps, gas_fee, slippage_bps) ==
    LET liab     == Resize(liab_amount, 96)
        bonus    == DivSmall(MulSmall(liab, bonus_bps, 96), 10000)
        slippage == DivSmall(MulSmall(liab, slippage_bps, 96), 10000)
    IN  WrappingSub(WrappingSub(bonus, Resize(gas_fee, 96)), slippage)

\* A 96-bit two's-complement value that an i64 can hold.
FitsI64(x) == SignExtend(Resize(x, 64), 96) = x

\* C10: for every u64 debt and gas and every u16 basis points,
\* estimate_profit returns the value of
\* (debt * bonus / 10000) - gas - (debt * slippage / 10000), held in an i64
\* (stated for the inputs whose value an i64 can hold).
C10_EstimateProfitIsFormula ==
    LET exact == ExactProfit(ev_in.liab_amount, ev_in.liquidation_bonus_bps,
                             ev_in.gas_fee, ev_in.swap_slippage_bps)
    IN  (ev_in.fn = "estimate_profit" /\ Evaluated /\ FitsI64(exact)) =>
            /\ ev_out.status = "done"
            /\ SignExtend(ev_out.value, 96) = exact

(***************************************************************************)
(* Claims about the executors, checked under Spec.                         *)
(***************************************************************************)

\* The task holds the guard: it is between the compare_exchange that
\* succeeded and the store.
InFlight(t) ==
    pc[t] \in {"execute_internal", "execute_real", "execute_kamino_liquidation",
               "kamino_simulate", "kamino_send", "execute_marginfi_liquidation",
               "marginfi_simulate", "marginfi_send", "balance_after", "store"}

Busy == Err("Liquidation already in progress")

\* The calls of the current attempt of task t, as a set.
Called(t) == {calls[t][i] : i \in 1..Len(calls[t])}

\* C1: of the overlapping Liquidator::execute calls at most one holds the
\* guard; a call made while another is in flight returns the busy error in
\* that same step, having made no chain call and assembled nothing, and a
\* call made while none is in flight acquires the guard.
C1_OneAcquiresOthersBusy ==
    /\ [](Cardinality({t \in LiquidationTasks : InFlight(t)}) <= 1)
    /\ [](\A t \in LiquidationTasks :
            result[t] = Busy => pc[t] = "returned" /\ calls[t] = <<>> /\ tx[t] = <<>>)
    /\ [][\A t \in LiquidationTasks :
            (pc[t] = "idle" /\ pc'[t] # "idle") =>
                IF \E u \in LiquidationTasks : InFlight(u)
                THEN result'[t] = Busy /\ pc'[t] = "returned"
                ELSE InFlight(t)' /\ result'[t] = NoResult]_vars

\* One attempt is in flight and an overlapping one has returned busy.
C1_Witness ==
    \E t, u \in LiquidationTasks :
        /\ InFlight(t)
        /\ pc[t] \in {"kamino_simulate", "marginfi_simulate"}
        /\ result[u] = Busy

\* C2: the guard is held only while an attempt that acquired it is in
\* flight: whatever the attempt returned (confirmed, failed, dry-run result,
\* unsupported protocol, an error of the balance or blockhash query), the
\* flag is false once it has returned, so the next attempt acquires it.
C2_GuardReleasedOnEveryExit ==
    EXECUTING = (\E t \in LiquidationTasks : InFlight(t))

\* An attempt left through the early return of a failing balance query and
\* a later attempt holds the guard.
C2_Witness ==
    \E t, u \in LiquidationTasks :
        /\ pc[t] = "returned"
        /\ result[t] = Err("get_balance")
        /\ InFlight(u)
        /\ EXECUTING

\* Position of the first occurrence of a call in the attempt's call log (0 if none).
FirstCall(t, name) ==
    IF name \in Called(t)
    THEN CHOOSE i \in 1..Len(calls[t]) :
           calls[t][i] = name /\ \A k \in 1..(i - 1) : calls[t][k] # name
    ELSE 0

\* C3: a task has called send_and_confirm_transaction only after
\* simulate_transaction answered without error for the same transaction;
\* after a simulation error or a failed simulate call the attempt's result
\* is a failure and no submit call was made.
C3_SubmitOnlyAfterCleanSimulation ==
    \A t \in Tasks :
        /\ "send_and_confirm_transaction" \in Called(t) =>
              /\ sim[t] = "clean"
              /\ 0 < FirstCall(t, "simulate_transaction")
              /\ FirstCall(t, "simulate_transaction")
                    < FirstCall(t, "send_and_confirm_transaction")
        /\ sim[t] \in {"failed", "call_failed"} =>
              /\ "send_and_confirm_transaction" \notin Called(t)
              /\ result[t].kind = "Ok"
              /\ ~result[t].success
              /\ result[t].signature = "None"

\* A liquidation ended on a simulation error while the arbitrage was
\* submitted after its clean simulation.
C3_Witness ==
    \E t \in LiquidationTasks, a \in ArbitrageTasks :
        /\ sim[t] = "failed"
        /\ pc[t] = "returned"
        /\ sim[a] = "clean"
        /\ "send_and_confirm_transaction" \in Called(a)

\* The opportunity's estimated profit, as a signed 96-bit number.
EstimatedProfit(o) ==
    IF o.kind = "liquidation" THEN SignExtend(o.estimated_profit_lamports, 96)
    ELSE Resize(o.expected_profit, 96)

\* C4: in dry-run mode an attempt that runs makes no chain call and
\* assembles no transaction, and what it returns is a success without a
\* signature whose profit is the opportunity's estimated profit.
C4_DryRunNoChainCall ==
    dry_run =>
        \A t \in Tasks :
            /\ calls[t] = <<>>
            /\ tx[t] = <<>>
            /\ (pc[t] \in {"store", "returned"} /\ result[t] # Busy) =>
                  /\ result[t].kind = "Ok"
                  /\ result[t].success
                  /\ result[t].signature = "None"
                  /\ result[t].error = "None"
                  /\ SignExtend(result[t].profit, 96) = EstimatedProfit(opportunity[t])

\* Both executors have returned a dry-run result.
C4_Witness ==
    /\ dry_run
    /\ \E t \in LiquidationTasks, a \in ArbitrageTasks :
         /\ pc[t] = "returned" /\ result[t].kind = "Ok"
         /\ pc[a] = "returned" /\ result[a].kind = "Ok"
         /\ opportunity[a].token_in = "USDT"

\* The task is building, simulating or submitting a flash-loan transaction.
FlashLoanInProgress(t) ==
    pc[t] \in {"execute_kamino_liquidation", "kamino_simulate", "kamino_send",
               "get_reserve_for_mint", "arbitrage_simulate", "arbitrage_send"}

\* C5: at any moment at most one task is building, simulating or
\* submitting a flash-loan transaction, whichever executor it runs.
C5_OneFlashLoanTransactionAtATime ==
    Cardinality({t \in Tasks : FlashLoanInProgress(t)}) <= 1

\* C6: in every assembled transaction that holds a flash repay, the
\* borrow index of the repay is the zero-based position of the flash borrow
\* of that transaction.
C6_RepayIndexIsBorrowPosition ==
    \A t \in Tasks : \A i \in 1..Len(tx[t]) :
        tx[t][i].ix = "flash_repay_reserve_liquidity" =>
            /\ \E j \in 1..Len(tx[t]) : tx[t][j].ix = "flash_borrow_reserve_liquidity"
            /\ \A j \in 1..Len(tx[t]) :
                 tx[t][j].ix = "flash_borrow_reserve_liquidity" =>
                     tx[t][i].borrow_instruction_index = j - 1

\* A Kamino liquidation and an arbitrage have both submitted their
\* flash-loan transaction.
C6_Witness ==
    \E t \in LiquidationTasks, a \in ArbitrageTasks :
        /\ opportunity[t].kind = "liquidation" /\ opportunity[t].protocol = "Kamino"
        /\ "send_and_confirm_transaction" \in Called(t)
        /\ "send_and_confirm_transaction" \in Called(a)

\* C7: every assembled transaction is [flash_borrow, action..., flash_repay]:
\* the borrow first, the repay last and at least one action instruction,
\* none of them a borrow or a repay, between the two.
C7_BorrowActionRepay ==
    \A t \in Tasks :
        tx[t] # <<>> =>
            /\ Len(tx[t]) >= 3
            /\ tx[t][1].ix = "flash_borrow_reserve_liquidity"
            /\ tx[t][Len(tx[t])].ix = "flash_repay_reserve_liquidity"
            /\ \A i \in 2..(Len(tx[t]) - 1) :
                 tx[t][i].ix \notin {"flash_borrow_reserve_liquidity",
                                     "flash_repay_reserve_liquidity"}

(***************************************************************************)
(* Further claims about the evaluation, checked under SpecEval.            *)
(***************************************************************************)

\* The outcome of estimate_profit on the arguments of the call under
\* evaluation, with some of them replaced.
ProfitOutcome(liab_amount, liquidation_bonus_bps, gas_fee, swap_slippage_bps) ==
    LET r == estimate_profit(liab_amount, liquidation_bonus_bps, gas_fee,
                             swap_slippage_bps)
    IN  [status |-> IF r.overflow /\ overflow_checks THEN "panic" ELSE "done",
         value  |-> r.value]

\* Signed x <= y.
SignedLeq(x, y) == ~SignedLess(y, x)

\* C11: with the other arguments fixed, estimate_profit never decreases when
\* liquidation_bonus_bps increases and never increases when gas_fee or
\* swap_slippage_bps increases (compared over the calls that return).
C11_EstimateProfitMonotone ==
    (ev_in.fn = "estimate_profit" /\ Evaluated /\ ev_out.status = "done") =>
        /\ \A b \in BpsSamples :
              LET r == ProfitOutcome(ev_in.liab_amount, b, ev_in.gas_fee,
                                     ev_in.swap_slippage_bps)
              IN  (b >= ev_in.liquidation_bonus_bps /\ r.status = "done") =>
                      SignedLeq(ev_out.value, r.value)
        /\ \A g \in U64Samples :
              LET r == ProfitOutcome(ev_in.liab_amount,
                                     ev_in.liquidation_bonus_bps, g,
                                     ev_in.swap_slippage_bps)
              IN  (~Less(g, ev_in.gas_fee) /\ r.status = "done") =>
                      SignedLeq(r.value, ev_out.value)
        /\ \A s \in BpsSamples :
              LET r == ProfitOutcome(ev_in.liab_amount,
                                     ev_in.liquidation_bonus_bps, ev_in.gas_fee, s)
              IN  (s >= ev_in.swap_slippage_bps /\ r.status = "done") =>
                      SignedLeq(r.value, ev_out.value)

\* The gas estimate of an arbitrage transaction (execute_jupiter_swap adds
\* it to what the swap must return).
ArbitrageGas == 5000

\* The search found the pool list and at least two pools in it, so both
\* legs were quoted.
Quoted ==
    /\ ev_in.fn = "find_cross_dex_arb" /\ Evaluated
    /\ <<ev_in.token_a, ev_in.token_b>> \in DOMAIN ev_in.pools
    /\ Len(ev_in.pools[<<ev_in.token_a, ev_in.token_b>>]) >= 2

\* A' of the best round trip over the pool pairs.
BestReturn ==
    LET pools == ev_in.pools[<<ev_in.token_a, ev_in.token_b>>]
        outs  == {RoundTrip(pools, PoolPairs(pools)[k], ev_in.amount) :
                      k \in 1..Len(PoolPairs(pools))}
    IN  CHOOSE x \in outs : \A y \in outs : y <= x

\* A' - A - A * 9 / 10000 - gas.
NetOfFeeAndGas ==
    BestReturn - ev_in.amount - ((ev_in.amount * 9) \div 10000) - ArbitrageGas

\* C14: for trial amount A whose round trip returns A', the arbitrage profit
\* is A' - A - flash_fee(A) - gas with flash_fee(A) = A * 9 / 10000; an
\* opportunity is emitted exactly when that value is positive, and its
\* expected_profit is that value.
C14_ProfitNetOfFeeAndGas ==
    Quoted =>
        /\ (ev_out.opp.kind = "Some") <=> (NetOfFeeAndGas > 0)
        /\ ev_out.opp.kind = "Some" => ev_out.opp.expected_profit = NetOfFeeAndGas

\* What the search computes: A' - A - flash_fee(A), gas not taken off; on
\* the sampled amounts the f64 fee is A * 9 / 10000.
SearchNetsOutFeeOnly ==
    LET net == BestReturn - ev_in.amount - ((ev_in.amount * 9) \div 10000)
    IN  Quoted =>
            /\ (ev_out.opp.kind = "Some") <=> (net > 0)
            /\ ev_out.opp.kind = "Some" =>
                  /\ ev_out.opp.expected_profit = net
                  /\ ev_out.opp.flash_loan_fee = (ev_in.amount * 9) \div 10000

(***************************************************************************)
(* Further claims about the executors, checked under Spec.                 *)
(***************************************************************************)

\* The last chain call of the current attempt of task t.
LastCall(t) == IF calls[t] = <<>> THEN "none" ELSE calls[t][Len(calls[t])]

\* The attempt of task t has resolved: its result is what the caller gets.
Resolved(t) == result[t] # NoResult

\* C17: every execution attempt resolves to a result object (success flag,
\* optional signature, profit, optional error text), never to an error
\* returned in its place: so when the guard is busy, when a balance or
\* blockhash query fails, when simulation rejects and when submission fails.
C17_AlwaysStructuredResult ==
    \A t \in Tasks : Resolved(t) => result[t].kind = "Ok"

\* The attempt of task t ended because send_and_confirm_transaction failed.
SubmissionFailed(t) ==
    /\ Resolved(t)
    /\ LastCall(t) = "send_and_confirm_transaction"
    /\ ~(result[t].kind = "Ok" /\ result[t].success)

\* The attempt of task t ended because the simulation did not come back clean.
SimulationRejected(t) ==
    /\ Resolved(t)
    /\ LastCall(t) = "simulate_transaction"
    /\ sim[t] \in {"failed", "call_failed"}

\* C18: the result of an attempt whose submission failed is never equal to
\* the result of an attempt that the simulation rejected, whichever of the
\* two executors made either attempt.
C18_SubmissionFailureDistinct ==
    \A t \in Tasks, u \in Tasks :
        (SubmissionFailed(t) /\ SimulationRejected(u)) => result[t] # result[u]

\* A liquidation whose submission failed stands next to an arbitrage that
\* the simulation rejected.
C18_Witness ==
    \E t \in LiquidationTasks, u \in ArbitrageTasks :
        /\ SubmissionFailed(t) /\ SimulationRejected(u)
        /\ result[t].kind = "Ok" /\ result[u].kind = "Ok"

(***************************************************************************)
(* Claims about the rate limiter, checked under SpecRateLimiter.           *)
(***************************************************************************)

\* The calls of wait() that returned in the second that starts at tick a.
AdmittedInSecondFrom(a) ==
    {i \in 1..Len(admitted) : admitted[i].at >= a /\ admitted[i].at < a + TicksPerSecond}

\* C16: for a RateLimiter with ceiling N, at most N calls of wait() return
\* in any one-second interval, wherever the interval starts; a caller that
\* finds N calls admitted in the current window is suspended until the
\* window resets and is admitted then (so no other call was admitted in the
\* second before it).
C16_CeilingInAnySlidingSecond ==
    /\ \A a \in 0..MaxTime :
          Cardinality(AdmittedInSecondFrom(a)) <= rate_limiter.requests_per_second
    /\ \A i \in 1..Len(admitted) :
          admitted[i].slept =>
              \A j \in 1..(i - 1) : admitted[j].at + TicksPerSecond <= admitted[i].at

\* The second half alone: a caller that slept was suspended while the
\* ceiling was reached and returned a second or more after every earlier
\* admission.
SuspendedUntilReset ==
    /\ limiter_pc.at = "sleep" => rate_limiter.count >= rate_limiter.requests_per_second
    /\ \A i \in 1..Len(admitted) :
          admitted[i].slept =>
              \A j \in 1..(i - 1) : admitted[j].at + TicksPerSecond <= admitted[i].at

(***************************************************************************)
(* Claims about the scan, checked under SpecScanner.                       *)
(***************************************************************************)

\* The estimated profits of a list of opportunities, in order.
Profits(opps) == [i \in 1..Len(opps) |-> opps[i].estimated_profit_lamports]

\* The elements of a sequence.
Elements(xs) == {xs[i] : i \in 1..Len(xs)}

\* Task p ended in failure: its RPC call failed or it panicked.
TaskFailed(p) == scan_task[p].outcome \in {"Err", "JoinError"}

\* C12: every opportunity that leaves a scan has an estimated profit above
\* zero; a position whose estimate is zero or negative is dropped and the
\* task goes on (it does not end in an error); and the list scan_all returns
\* holds only opportunities whose estimate is at least
\* config.min_profit_threshold.
C12_PositiveAndAtLeastMinimum ==
    /\ \A p \in Protocols :
          /\ \A x \in Elements(Profits(scan_task[p].opportunities)) : IsPositiveI64(x)
          /\ scan_task[p].outcome = "Err" => scan_task[p].accounts = <<>>
    /\ \A x \in Elements(Profits(collected)) : IsPositiveI64(x)
    /\ scan_pc = "returned" =>
          \A x \in Elements(Profits(collected)) :
              ~Less(x, config.min_profit_threshold)

\* C13: the list scan_all returns is in descending order of estimated
\* profit (no entry is followed by one with a higher estimate), and the poll
\* loop passes the entries to execute() in the order of the list.
C13_DescendingAndOfferedInOrder ==
    /\ scan_pc = "returned" =>
          \A i \in 1..Len(collected) : \A j \in (i + 1)..Len(collected) :
              ~SignedLess(collected[i].estimated_profit_lamports,
                          collected[j].estimated_profit_lamports)
    /\ Len(offered) <= Len(collected)
    /\ offered = SubSeq(collected, 1, Len(offered))

\* A returned list, all of it offered, that holds the two opportunities of
\* one task in the reverse of the order in which the task found them.
C13_Witness ==
    /\ scan_pc = "returned"
    /\ offered = collected
    /\ \E p \in Protocols :
          LET opps == scan_task[p].opportunities
          IN  /\ Len(opps) = 2
              /\ SignedLess(opps[1].estimated_profit_lamports,
                            opps[2].estimated_profit_lamports)
              /\ collected = <<opps[2], opps[1]>>

\* C15: every chain RPC call of a scan (the account fetch of a protocol
\* task, the account fetches made for an opportunity) has first passed the
\* scanner's rate limiter: the scan has made no more RPC calls than
\* rate_limiter.wait() has admitted.
C15_ScanCallsPassRateLimiter ==
    Len(scan_task["Kamino"].rpc_calls) + Len(scan_task["Marginfi"].rpc_calls)
        <= Len(admitted)

\* The opportunities of task p that scan_all's retain keeps.
Retained(p) ==
    Elements(RetainMinProfit(scan_task[p].opportunities, config.min_profit_threshold))

\* C19: when a protocol task fails (RPC error, timeout, panic) scan_all
\* still joins the other task, keeps that task's opportunities in the list
\* and returns the list; the failure of one task changes nothing in the
\* other task and discards nothing collected from it.
C19_TaskFailureIsolated ==
    /\ [](scan_pc = "returned" =>
            \A p \in Protocols :
                /\ p \in config.enabled_protocols => scan_task[p].pc = "joined"
                /\ scan_task[p].outcome = "Ok" => Retained(p) \subseteq Elements(collected))
    /\ [](scan_pc = "join_next" =>
            \A p \in Protocols :
                (scan_task[p].pc = "joined" /\ scan_task[p].outcome = "Ok") =>
                    Elements(scan_task[p].opportunities) \subseteq Elements(collected))
    /\ [][\A p \in Protocols, q \in Protocols :
            (p # q /\ ~TaskFailed(p) /\ TaskFailed(p)') => scan_task'[q] = scan_task[q]]_vars

\* scan_all has returned; one task failed and an opportunity of the other
\* is in the returned list.
C19_Witness ==
    /\ scan_pc = "returned"
    /\ \E p \in Protocols, q \in Protocols :
          /\ TaskFailed(p)
          /\ scan_task[q].outcome = "Ok"
          /\ scan_task[q].opportunities # <<>>
          /\ Elements(scan_task[q].opportunities) \subseteq Elements(collected)

\* The accounts task p went through that did not decode.
DecodeFailures(p) ==
    Cardinality({i \in 1..Len(scan_task[p].accounts) : ~scan_task[p].accounts[i].decodes})

\* C20: an account that does not decode is skipped and the task goes on
\* with the rest of the batch (it ends neither in an error nor in a panic
\* over it), and the task keeps a count of the decode failures, next to its
\* counts of decoded, indebted and liquidatable positions.
C20_DecodeFailuresSkippedAndCounted ==
    \A p \in Protocols :
        /\ scan_task[p].outcome = "Err" => scan_task[p].accounts = <<>>
        /\ scan_task[p].outcome = "JoinError" =>
              scan_task[p].accounts[Len(scan_task[p].accounts)].decodes
        /\ DecodeFailures(p) \in { scan_task[p].parsed_count,
                                   scan_task[p].with_debt_count,
                                   scan_task[p].liquidatable_count }

\* The first half alone: a decode failure changes nothing but the position
\* in the batch, and the accounts after it are evaluated.
DecodeFailureSkipped ==
    \A p \in Protocols :
        /\ scan_task[p].outcome = "Err" => scan_task[p].accounts = <<>>
        /\ scan_task[p].outcome = "JoinError" =>
              scan_task[p].accounts[Len(scan_task[p].accounts)].decodes
        /\ scan_task[p].outcome \in {"none", "Ok"} =>
              scan_task[p].parsed_count =
                  Len(scan_task[p].accounts) - DecodeFailures(p)

(***************************************************************************)
(* The Kamino account decoder.  An account's data is a byte buffer: its    *)
(* length and the bytes that were written, every other byte being zero.    *)
(* A slice `data[lo..hi]` faults when hi is beyond the length.             *)
(***************************************************************************)

\* `data[i]` for i below data.len().
Byte(data, i) == IF i \in DOMAIN data.bytes THEN data.bytes[i] ELSE 0

\* `&data[lo..hi]` is in range.
SliceInRange(data, lo, hi) == lo <= hi /\ hi <= data.len

\* from_le_bytes of `data[lo..lo+n]`, and the bytes of a Pubkey: the value
\* with the first byte least significant.
ReadLe(data, lo, n) == [j \in 1..n |-> Byte(data, lo + j - 1)]

KAMINO_OBLIGATION_DISCRIMINATOR == <<168, 206, 141, 106, 88, 76, 172, 167>>

\* Pubkey::default(): thirty-two zero bytes.
DefaultPubkey == [j \in 1..32 |-> 0]

\* `data.len() < 500`.
TooShort(data) == data.len < 500

\* The loops' guard without its effect: no entry is ever beyond the end.
EntryBeyondEnd_Never(data, offset, size) == FALSE

\* `if offset + 40 > data.len() { break; }` and, for borrows, offset + 48.
EntryBeyondEnd(data, offset, size) == offset + size > data.len

NoEntry == [status |-> "done", reserve |-> DefaultPubkey, amount |-> <<>>]

EntryFault == [status |-> "panic", reserve |-> DefaultPubkey, amount |-> <<>>]

\* The search loops `for i in 0..8` of from_account_data from entry i on:
\* entries start at `start`, are `stride` bytes apart, and hold a reserve
\* address followed by an amount of `width` bytes.  The first entry whose
\* reserve is not the default address is taken.
RECURSIVE FirstActiveEntry(_, _, _, _, _)
FirstActiveEntry(data, start, stride, width, i) ==
    LET offset == start + (i * stride)
        reserve == ReadLe(data, offset, 32)
    IN  IF i = 8 THEN NoEntry
        ELSE IF EntryBeyondEnd(data, offset, 32 + width) THEN NoEntry
        ELSE IF ~SliceInRange(data, offset, offset + 32) THEN EntryFault
        ELSE IF reserve # DefaultPubkey
        THEN IF offset + 32 + width <= data.len
             THEN IF SliceInRange(data, offset + 32, offset + 32 + width)
                  THEN [status |-> "done", reserve |-> reserve,
                        amount |-> ReadLe(data, offset + 32, width)]
                  ELSE EntryFault
             ELSE [status |-> "done", reserve |-> reserve, amount |-> <<>>]
        ELSE FirstActiveEntry(data, start, stride, width, i + 1)

\* The deposits search: `deposits_start = 200`, entries of 80 bytes, entered
\* when `data.len() > deposits_start + 64`.
Deposits(data) ==
    IF data.len > 200 + 64 THEN FirstActiveEntry(data, 200, 80, 8, 0) ELSE NoEntry

\* The borrows search: `borrows_start = 850`, entries of 96 bytes.
Borrows(data) ==
    IF data.len > 850 + 64 THEN FirstActiveEntry(data, 850, 96, 16, 0) ELSE NoEntry

\* The slices from_account_data takes at fixed offsets: the discriminator,
\* the slot, the market, the owner and the four scaled values.
FixedSlices ==
    { <<0, 8>>, <<8, 16>>, <<24, 56>>, <<56, 88>>, <<88, 104>>, <<104, 120>>,
      <<120, 136>>, <<136, 152>> }

DecodeNone == [status |-> "done", kind |-> "None"]

DecodeFault == [status |-> "panic", kind |-> "None"]

\* KaminoObligation::from_account_data.  A discriminator other than the
\* expected one is logged (standard |-> FALSE) and decoding goes on.
from_account_data(data) ==
    LET deposit == Deposits(data)
        borrow  == Borrows(data)
    IN  IF TooShort(data) THEN DecodeNone
        ELSE IF \E slice \in FixedSlices : ~SliceInRange(data, slice[1], slice[2])
        THEN DecodeFault
        ELSE IF deposit.status = "panic" \/ borrow.status = "panic" THEN DecodeFault
        ELSE [ status |-> "done", kind |-> "Some",
               standard |-> ReadLe(data, 0, 8) = KAMINO_OBLIGATION_DISCRIMINATOR,
               tag |-> ReadLe(data, 0, 8),
               last_update_slot |-> ReadLe(data, 8, 8),
               lending_market |-> ReadLe(data, 24, 32),
               owner |-> ReadLe(data, 56, 32),
               deposited_value_sf |-> ReadLe(data, 88, 16),
               borrowed_assets_market_value_sf |-> ReadLe(data, 104, 16),
               allowed_borrow_value_sf |-> ReadLe(data, 120, 16),
               unhealthy_borrow_value_sf |-> ReadLe(data, 136, 16),
               deposit_reserve |-> deposit.reserve,
               deposited_amount |->
                   IF deposit.amount = <<>> THEN FromNat(0, 64) ELSE deposit.amount,
               borrow_reserve |-> borrow.reserve,
               borrowed_amount_sf |->
                   IF borrow.amount = <<>> THEN FromNat(0, 128) ELSE borrow.amount ]

\* The loop body of scan_kamino_parallel from the account's bytes on: the
\* decoding, the evaluation of the decoded obligation, and the opportunity
\* with the reserves and amounts it takes from the obligation.
KaminoScanData(data, max_slippage, checks) ==
    LET obligation == from_account_data(data)
        body       == KaminoLoopBody(obligation, max_slippage, checks)
        banks      == [ asset_bank   |-> obligation.deposit_reserve,
                        liab_bank    |-> obligation.borrow_reserve,
                        asset_amount |-> obligation.deposited_amount,
                        liab_amount  |->
                            Resize(DivByKaminoScale(obligation.borrowed_amount_sf), 64) ]
    IN  IF obligation.status = "panic"
        THEN [status |-> "panic", parsed |-> FALSE, liquidatable |-> FALSE,
              opportunities |-> <<>>]
        ELSE IF obligation.kind = "None"
        THEN [status |-> "done", parsed |-> FALSE, liquidatable |-> FALSE,
              opportunities |-> <<>>]
        ELSE [status |-> body.status, parsed |-> TRUE,
              liquidatable |-> body.liquidatable,
              opportunities |->
                  [k \in DOMAIN body.opportunities |-> body.opportunities[k] @@ banks]]

\* Bytes written at offset lo.
Place(lo, limbs) == [i \in lo..(lo + Len(limbs) - 1) |-> limbs[i - lo + 1]]

\* A buffer of the given length holding the content that falls inside it.
Buffer(len, content) ==
    [len |-> len,
     bytes |-> [i \in {j \in DOMAIN content : j < len} |-> content[i]]]

\* Nothing written.
Blank == Place(0, <<>>)

\* Headers: blank, the expected discriminator alone, and obligations of debt
\* 2000000 against an unhealthy limit of 1000000 (liquidatable) or 4000000
\* (healthy), under the expected and under another discriminator.
HeaderSamples ==
    { Blank,
      Place(0, KAMINO_OBLIGATION_DISCRIMINATOR),
      Place(0, KAMINO_OBLIGATION_DISCRIMINATOR)
          @@ Place(104, TimesKaminoScale(2000000)) @@ Place(136, TimesKaminoScale(1000000)),
      Place(0, <<1, 2, 3, 4, 5, 6, 7, 8>>)
          @@ Place(104, TimesKaminoScale(2000000)) @@ Place(136, TimesKaminoScale(1000000)),
      Place(0, KAMINO_OBLIGATION_DISCRIMINATOR)
          @@ Place(104, TimesKaminoScale(2000000)) @@ Place(136, TimesKaminoScale(4000000)) }

\* Deposit entries: none, or one in entry 0, 4 or 7.
DepositSamples ==
    { Blank } \cup
    { Place(200 + (i * 80), <<7>>) @@ Place(232 + (i * 80), FromNat(5000000, 64)) :
        i \in {0, 4, 7} }

\* Borrow entries: none, or one in entry 0 or 7, of amount 2000000 scaled.
BorrowSamples ==
    { Blank } \cup
    { Place(881 + (i * 96), <<9>>) @@ Place(882 + (i * 96), TimesKaminoScale(2000000)) :
        i \in {0, 7} }

\* Lengths on both sides of every comparison with data.len().
LengthSamples ==
    {0, 8, 152, 264, 265, 499, 500, 559, 560, 800, 914, 915, 1300, 1569, 1570}

DataSamples ==
    { Buffer(len, h @@ d @@ b) :
        len \in LengthSamples, h \in HeaderSamples, d \in DepositSamples,
        b \in BorrowSamples }

DecodeInputs ==
    { [fn |-> "from_account_data", data |-> data, max_slippage |-> 0] :
        data \in DataSamples }
    \cup
    { [fn |-> "scan_kamino_data", data |-> data, max_slippage |-> s] :
        data \in DataSamples, s \in {0, 3} }

InitDecode ==
    /\ overflow_checks \in BOOLEAN
    /\ ev_in \in DecodeInputs
    /\ ev_out = NotEvaluated
    /\ dry_run = TRUE
    /\ InitExec
    /\ InitLimiter(ScannerCeiling)
    /\ InitScan(DefaultConfig)
    /\ InitStats

\* from_account_data decodes one buffer.
DecodeAccountData ==
    /\ ev_in.fn = "from_account_data"
    /\ ~Evaluated
    /\ ev_out' = from_account_data(ev_in.data)
    /\ UNCHANGED <<overflow_checks, ev_in>>
    /\ UNCHANGED <<execVars, limiterVars, scanVars, pollVars>>

\* scan_kamino_parallel decodes and evaluates one fetched account.
ScanKaminoData ==
    /\ ev_in.fn = "scan_kamino_data"
    /\ ~Evaluated
    /\ ev_out' = KaminoScanData(ev_in.data, ev_in.max_slippage, overflow_checks)
    /\ UNCHANGED <<overflow_checks, ev_in>>
    /\ UNCHANGED <<execVars, limiterVars, scanVars, pollVars>>

NextDecode ==
    \/ DecodeAccountData
    \/ ScanKaminoData

SpecDecode == InitDecode /\ [][NextDecode]_vars

\* C21: from_account_data returns None for every buffer shorter than 500
\* bytes, and for every buffer of at least 500 bytes it returns a record
\* without faulting on a slice, whatever the bytes are; a discriminator other
\* than the expected one does not make it return None.
C21_DecodeTotalAboveMinimum ==
    (ev_in.fn = "from_account_data" /\ Evaluated) =>
        /\ ev_in.data.len < 500 => ev_out = DecodeNone
        /\ ev_in.data.len >= 500 => (ev_out.status = "done" /\ ev_out.kind = "Some")

\* A buffer of at least the minimum size with a foreign discriminator and a
\* deposit entry the buffer's end cuts off has been decoded into a record.
C21_Witness ==
    /\ ev_in.fn = "from_account_data"
    /\ Evaluated
    /\ ev_in.data.len = 559
    /\ ReadLe(ev_in.data, 0, 8) # KAMINO_OBLIGATION_DISCRIMINATOR
    /\ Byte(ev_in.data, 520) # 0
    /\ ev_out.status = "done"
    /\ ev_out.kind = "Some"
    /\ ~ev_out.standard
    /\ ev_out.deposit_reserve = DefaultPubkey

\* `RpcFilterType::DataSize(1300)`: the size of the accounts the Kamino scan
\* fetches.
FetchedSize == 1300

\* The opportunities of one account that scan_all's profit filter keeps under
\* the default configuration and the poll loop hands to execute.
HandedToExecution(opportunities) ==
    RetainMinProfit(opportunities, DefaultConfig.min_profit_threshold)

\* C22: no opportunity whose collateral reserve (asset_bank) or debt reserve
\* (liab_bank) is the default address is emitted by the Kamino scan and handed
\* to execution (stated for accounts of the size the scan fetches).
C22_NoDefaultReserveHandedOver ==
    (ev_in.fn = "scan_kamino_data" /\ Evaluated /\ ev_in.data.len = FetchedSize) =>
        \A k \in DOMAIN HandedToExecution(ev_out.opportunities) :
            LET o == HandedToExecution(ev_out.opportunities)[k]
            IN  o.asset_bank # DefaultPubkey /\ o.liab_bank # DefaultPubkey

\* The part of the statement about the decoder: a buffer none of whose
\* readable deposit (borrow) entries names a reserve decodes into a record
\* with the default deposit (borrow) reserve.
NoActiveEntryGivesDefault ==
    (ev_in.fn = "from_account_data" /\ Evaluated /\ ev_out.kind = "Some") =>
        /\ (\A i \in 0..7 : ReadLe(ev_in.data, 200 + (i * 80), 32) = DefaultPubkey)
               => ev_out.deposit_reserve = DefaultPubkey
        /\ (\A i \in 0..7 : ReadLe(ev_in.data, 850 + (i * 96), 32) = DefaultPubkey)
               => ev_out.borrow_reserve = DefaultPubkey

(***************************************************************************)
(* config.rs and main.rs: the environment, BotConfig::load and the start   *)
(* of the bot.  A text is a sequence of characters.                        *)
(***************************************************************************)

\* env::var(..) is Err: the variable is not set.
Absent == [present |-> FALSE, text |-> <<>>]

\* env::var(..) is Ok(text).
Present(text) == [present |-> TRUE, text |-> text]

Digits == <<"0", "1", "2", "3", "4", "5", "6", "7", "8", "9">>

IsDigit(c) == \E d \in 1..10 : Digits[d] = c

DigitValue(c) == (CHOOSE d \in 1..10 : Digits[d] = c) - 1

ParseErr == [ok |-> FALSE, value |-> <<>>]

\* The digit loop of `str::parse` for an unsigned integer of `bits` bits:
\* a character that is no digit, or a value beyond the type, is an error.
RECURSIVE ParseDigits(_, _, _)
ParseDigits(digits, bits, acc) ==
    IF digits = <<>> THEN [ok |-> TRUE, value |-> Resize(acc, bits)]
    ELSE IF ~IsDigit(Head(digits)) THEN ParseErr
    ELSE LET next == WrappingAdd(MulSmall(acc, 10, bits + 8),
                                 FromNat(DigitValue(Head(digits)), bits + 8))
         IN  IF next[Limbs(bits) + 1] # 0 THEN ParseErr
             ELSE ParseDigits(Tail(digits), bits, next)

\* `text.parse::<uN>()`: an optional `+`, then at least one digit.
ParseUnsigned(text, bits) ==
    LET digits == IF text # <<>> /\ Head(text) = "+" THEN Tail(text) ELSE text
    IN  IF digits = <<>> THEN ParseErr
        ELSE ParseDigits(digits, bits, FromNat(0, bits + 8))

\* A parse that also takes the capitalised and numeric spellings.
ParseBool_Lenient(text) ==
    IF text \in {<<"t", "r", "u", "e">>, <<"T", "r", "u", "e">>, <<"1">>}
    THEN [ok |-> TRUE, value |-> TRUE]
    ELSE IF text \in {<<"f", "a", "l", "s", "e">>, <<"F", "a", "l", "s", "e">>, <<"0">>}
    THEN [ok |-> TRUE, value |-> FALSE]
    ELSE [ok |-> FALSE, value |-> FALSE]

\* `text.parse::<bool>()`: exactly "true" or "false".
ParseBool(text) ==
    IF text = <<"t", "r", "u", "e">> THEN [ok |-> TRUE, value |-> TRUE]
    ELSE IF text = <<"f", "a", "l", "s", "e">> THEN [ok |-> TRUE, value |-> FALSE]
    ELSE [ok |-> FALSE, value |-> FALSE]

\* `.unwrap_or(default)`.
UnwrapOr(parsed, default) == IF parsed.ok THEN parsed.value ELSE default

UpperCase == <<"K", "A", "M", "I", "N", "O", "R", "G", "F", "J", "U", "P", "T", "E", "L", "D", "S">>

LowerCase == <<"k", "a", "m", "i", "n", "o", "r", "g", "f", "j", "u", "p", "t", "e", "l", "d", "s">>

\* `to_lowercase()`, on the letters the samples use.
ToLowercase(text) ==
    [k \in 1..Len(text) |->
        IF \E u \in 1..Len(UpperCase) : UpperCase[u] = text[k]
        THEN LowerCase[CHOOSE u \in 1..Len(UpperCase) : UpperCase[u] = text[k]]
        ELSE text[k]]

\* `trim()`: without the blanks at both ends.
Trim(text) ==
    LET kept == {k \in 1..Len(text) : text[k] # " "}
    IN  IF kept = {} THEN <<>>
        ELSE LET first == CHOOSE k \in kept : \A j \in kept : k <= j
                 last  == CHOOSE k \in kept : \A j \in kept : j <= k
             IN  SubSeq(text, first, last)

\* `split(',')`: the pieces between the commas, the empty ones included.
RECURSIVE Split(_, _)
Split(text, piece) ==
    IF text = <<>> THEN <<piece>>
    ELSE IF Head(text) = "," THEN <<piece>> \o Split(Tail(text), <<>>)
    ELSE Split(Tail(text), Append(piece, Head(text)))

\* Protocol::from_str.
ProtocolFromStr(s) ==
    LET name == Trim(ToLowercase(s))
    IN  IF name = <<"k", "a", "m", "i", "n", "o">> THEN <<"Kamino">>
        ELSE IF name = <<"m", "a", "r", "g", "i", "n", "f", "i">> THEN <<"Marginfi">>
        ELSE IF name \in { <<"j", "u", "p", "i", "t", "e", "r", "-", "l", "e", "n", "d">>,
                          <<"j", "u", "p", "i", "t", "e", "r", "l", "e", "n", "d">>,
                          <<"j", "u", "p", "i", "t", "e", "r">> }
        THEN <<"JupiterLend">>
        ELSE <<>>

\* `split(',').filter_map(|p| p.trim().parse().ok()).collect()`.
RECURSIVE ParseProtocols(_)
ParseProtocols(pieces) ==
    IF pieces = <<>> THEN <<>>
    ELSE ProtocolFromStr(Trim(Head(pieces))) \o ParseProtocols(Tail(pieces))

\* The wallet keys that decode (base58) into the bytes of a keypair.
ValidWalletKeys == { <<"k", "e", "y">> }

\* BotConfig::get_keypair succeeds.
HasKeypair(c) == c.wallet_private_key \in ValidWalletKeys

\* BotConfig::default.
BotConfigDefault ==
    [ rpc_url               |-> <<"d", "e", "f", "a", "u", "l", "t">>,
      helius_api_key        |-> Absent,
      poll_interval_seconds |-> FromNat(60, 64),
      min_profit_threshold  |-> FromNat(5000, 64),
      max_slippage_percent  |-> 3,
      dry_run               |-> TRUE,
      batch_size            |-> FromNat(1000, 64),
      wallet_private_key    |-> <<>>,
      enabled_protocols     |-> <<"Kamino", "Marginfi", "JupiterLend">> ]

LoadOk(c) == [status |-> "loaded", config |-> c, error |-> "none"]

Exit(e) == [status |-> "exit", error |-> e]

\* BotConfig::validate.
validate(c) ==
    IF c.wallet_private_key = <<>> THEN "Wallet private key requis"
    ELSE IF IsZero(c.poll_interval_seconds) THEN "Poll interval minimum: 1 seconde"
    ELSE IF c.max_slippage_percent > 10 THEN "Slippage maximum: 10%"
    ELSE IF ~HasKeypair(c) THEN "Keypair invalide"
    ELSE "none"

\* BotConfig::load under the environment env.
load(env) ==
    LET c == [ rpc_url |->
                   IF env.HELIUS_API_KEY.present
                   THEN <<"h", "e", "l", "i", "u", "s", "?">> \o env.HELIUS_API_KEY.text
                   ELSE IF env.HELIUS_RPC_URL.present THEN env.HELIUS_RPC_URL.text
                   ELSE BotConfigDefault.rpc_url,
               helius_api_key |-> env.HELIUS_API_KEY,
               poll_interval_seconds |->
                   IF env.POLL_INTERVAL_SECONDS.present
                   THEN UnwrapOr(ParseUnsigned(env.POLL_INTERVAL_SECONDS.text, 64),
                                 FromNat(60, 64))
                   ELSE BotConfigDefault.poll_interval_seconds,
               min_profit_threshold |->
                   IF env.MIN_PROFIT_THRESHOLD.present
                   THEN UnwrapOr(ParseUnsigned(env.MIN_PROFIT_THRESHOLD.text, 64),
                                 FromNat(5000, 64))
                   ELSE BotConfigDefault.min_profit_threshold,
               max_slippage_percent |->
                   IF env.MAX_SLIPPAGE_PERCENT.present
                   THEN ToNat(UnwrapOr(ParseUnsigned(env.MAX_SLIPPAGE_PERCENT.text, 8),
                                       FromNat(3, 8)))
                   ELSE BotConfigDefault.max_slippage_percent,
               dry_run |->
                   IF env.DRY_RUN.present
                   THEN UnwrapOr(ParseBool(env.DRY_RUN.text), TRUE)
                   ELSE BotConfigDefault.dry_run,
               batch_size |->
                   IF env.BATCH_SIZE.present
                   THEN UnwrapOr(ParseUnsigned(env.BATCH_SIZE.text, 64), FromNat(1000, 64))
                   ELSE BotConfigDefault.batch_size,
               wallet_private_key |-> env.WALLET_PRIVATE_KEY.text,
               enabled_protocols |->
                   IF env.ENABLED_PROTOCOLS.present
                   THEN ParseProtocols(Split(env.ENABLED_PROTOCOLS.text, <<>>))
                   ELSE BotConfigDefault.enabled_protocols ]
    IN  IF ~env.WALLET_PRIVATE_KEY.present THEN Exit("WALLET_PRIVATE_KEY requis dans .env")
        ELSE IF validate(c) # "none" THEN Exit(validate(c))
        ELSE LoadOk(c)

\* Values of DRY_RUN: not set, the two spellings `parse::<bool>` takes, and
\* texts it rejects.
DryRunSamples ==
    { Absent,
      Present(<<"t", "r", "u", "e">>),
      Present(<<"f", "a", "l", "s", "e">>),
      Present(<<"F", "a", "l", "s", "e">>),
      Present(<<"F", "A", "L", "S", "E">>),
      Present(<<"0">>),
      Present(<<"n", "o">>),
      Present(<<>>),
      Present(<<" ", "f", "a", "l", "s", "e">>),
      Present(<<"f", "a", "l", "s", "e", " ">>) }

\* Values of WALLET_PRIVATE_KEY: not set, empty, not a key, a key.
WalletSamples ==
    { Absent, Present(<<>>), Present(<<"b", "a", "d">>), Present(<<"k", "e", "y">>) }

\* Values of MAX_SLIPPAGE_PERCENT on both sides of validate's limit and of u8.
SlippageTextSamples ==
    { Absent, Present(<<"1", "0">>), Present(<<"1", "1">>), Present(<<"2", "5", "6">>),
      Present(<<"x">>) }

PollIntervalSamples == { Absent, Present(<<"0">>), Present(<<"+", "5">>) }

\* The remaining settings: none set, or all set.
OtherSettingsSamples ==
    { [ HELIUS_API_KEY |-> Absent, HELIUS_RPC_URL |-> Absent,
        MIN_PROFIT_THRESHOLD |-> Absent, BATCH_SIZE |-> Absent,
        ENABLED_PROTOCOLS |-> Absent ],
      [ HELIUS_API_KEY |-> Absent, HELIUS_RPC_URL |-> Present(<<"u", "r", "l">>),
        MIN_PROFIT_THRESHOLD |-> Present(<<"2", "0", "0", "0", "0">>),
        BATCH_SIZE |-> Present(<<"-", "1">>),
        ENABLED_PROTOCOLS |->
            Present(<<"K", "a", "m", "i", "n", "o", ",", " ", "j", "u", "p", "i", "t",
                      "e", "r", ",", "s", "o", "l", "e", "n", "d">>) ],
      [ HELIUS_API_KEY |-> Present(<<"a", "b", "c">>),
        HELIUS_RPC_URL |-> Present(<<"u", "r", "l">>),
        MIN_PROFIT_THRESHOLD |-> Present(<<"1", "8", "4", "4", "6", "7", "4", "4", "0",
                                           "7", "3", "7", "0", "9", "5", "5", "1", "6",
                                           "1", "6">>),
        BATCH_SIZE |-> Present(<<"5", "0">>),
        ENABLED_PROTOCOLS |-> Present(<<"m", "a", "r", "g", "i", "n", "f", "i">>) ] }

EnvSamples ==
    { [ DRY_RUN |-> d, WALLET_PRIVATE_KEY |-> w, MAX_SLIPPAGE_PERCENT |-> s,
        POLL_INTERVAL_SECONDS |-> p, HELIUS_API_KEY |-> o.HELIUS_API_KEY,
        HELIUS_RPC_URL |-> o.HELIUS_RPC_URL,
        MIN_PROFIT_THRESHOLD |-> o.MIN_PROFIT_THRESHOLD, BATCH_SIZE |-> o.BATCH_SIZE,
        ENABLED_PROTOCOLS |-> o.ENABLED_PROTOCOLS ] :
        d \in DryRunSamples, w \in WalletSamples, s \in SlippageTextSamples,
        p \in PollIntervalSamples, o \in OtherSettingsSamples }

\* The command line: no subcommand, `start` without and with --dry-run, and
\* the subcommands that do not run the bot.
CommandSamples ==
    { [name |-> "none", dry_run |-> FALSE], [name |-> "start", dry_run |-> FALSE],
      [name |-> "start", dry_run |-> TRUE], [name |-> "scan", dry_run |-> FALSE],
      [name |-> "test", dry_run |-> FALSE], [name |-> "config", dry_run |-> FALSE] }

\* main: `Start { dry_run } => start_bot(dry_run)`, `None => start_bot(false)`.
StartsBot(command) == command.name \in {"none", "start"}

force_dry_run(command) == command.name = "start" /\ command.dry_run

InitConfig ==
    /\ overflow_checks = FALSE
    /\ ev_in \in { [fn |-> "main", env |-> e, command |-> c] :
                     e \in EnvSamples, c \in CommandSamples }
    /\ ev_out = NotEvaluated
    /\ dry_run = BotConfigDefault.dry_run
    /\ InitExec
    /\ InitLimiter(ScannerCeiling)
    /\ InitScan(DefaultConfig)
    /\ InitStats

\* `BotConfig::load()?` at the start of every command.
LoadConfig ==
    /\ ev_in.fn = "main"
    /\ ~Evaluated
    /\ ev_out' = load(ev_in.env)
    /\ UNCHANGED <<overflow_checks, ev_in>>
    /\ UNCHANGED <<execVars, limiterVars, scanVars, pollVars>>

\* start_bot from the loaded configuration to the poll loop: --dry-run forces
\* dry_run on, the executors are built from clones of the configuration, and
\* the connection and balance queries either succeed or end the process.
StartBot ==
    /\ ev_in.fn = "main"
    /\ ev_out.status = "loaded"
    /\ StartsBot(ev_in.command)
    /\ \E connected \in BOOLEAN :
          LET c == IF force_dry_run(ev_in.command)
                   THEN [ev_out.config EXCEPT !.dry_run = TRUE]
                   ELSE ev_out.config
          IN  IF connected
              THEN /\ ev_out' = [status |-> "running", config |-> c, error |-> "none"]
                   /\ dry_run' = c.dry_run
              ELSE /\ ev_out' = Exit("RPC")
                   /\ UNCHANGED dry_run
    /\ UNCHANGED <<overflow_checks, ev_in>>
    /\ UNCHANGED <<EXECUTING, pc, opportunity, calls, tx, sim, result>>
    /\ UNCHANGED <<limiterVars, scanVars, pollVars>>

\* scan_once, test_config and show_config: they load the configuration, do
\* their work and return.
OtherCommand ==
    /\ ev_in.fn = "main"
    /\ ev_out.status = "loaded"
    /\ ~StartsBot(ev_in.command)
    /\ ev_out' = [status |-> "done", config |-> ev_out.config, error |-> "none"]
    /\ UNCHANGED <<overflow_checks, ev_in>>
    /\ UNCHANGED <<execVars, limiterVars, scanVars, pollVars>>

NextConfig ==
    \/ LoadConfig
    \/ StartBot
    \/ OtherCommand

SpecConfig == InitConfig /\ [][NextConfig]_vars

\* DRY_RUN is set and its text is exactly `false`.
ParsesAsFalse(setting) == setting.present /\ setting.text = <<"f", "a", "l", "s", "e">>

\* C23: a loaded configuration has dry_run = TRUE unless DRY_RUN is set and
\* parses as false (not set or unparsable leaves it on); `start --dry-run`
\* forces it on in the running bot whatever was loaded; and the running bot
\* is out of dry-run only when DRY_RUN parsed as false and --dry-run was not
\* given.
C23_DryRunUnlessExplicitlyDisabled ==
    /\ ev_out.status \in {"loaded", "done"} =>
           (ev_out.config.dry_run <=> ~ParsesAsFalse(ev_in.env.DRY_RUN))
    /\ ev_out.status = "running" =>
           /\ dry_run = ev_out.config.dry_run
           /\ dry_run <=> (~ParsesAsFalse(ev_in.env.DRY_RUN) \/ force_dry_run(ev_in.command))

\* The bot runs in dry-run although DRY_RUN is `False`, which does not parse.
C23_Witness ==
    /\ ev_out.status = "running"
    /\ ev_in.env.DRY_RUN = Present(<<"F", "a", "l", "s", "e">>)
    /\ ~force_dry_run(ev_in.command)
    /\ dry_run

(***************************************************************************)
(* arbitrage.rs: ArbitrageScanner::scan with refresh_pools and the two     *)
(* searches.  Amounts and reserves are in units of 10^8 base units, so     *)
(* that the trial amounts 50e9 .. 1e12 are 500 .. 10000.                   *)
(***************************************************************************)

\* The pools stored under the pair the scan looks up.
refresh_pools_KeyedAsLookedUp(fetched) ==
    <<"USDC", "SOL">> :>
        << [dex |-> "Raydium", reserve_a |-> fetched[1], reserve_b |-> fetched[2],
            fee_bps |-> 25],
           [dex |-> "Orca", reserve_a |-> fetched[3], reserve_b |-> fetched[4],
            fee_bps |-> 30] >>

\* ArbitrageScanner::refresh_pools: the HashMap after the insert, given what
\* the four fetch_pool_reserve calls returned.  The map has no other key:
\* nothing else inserts, and the insert replaces the entry of (sol, usdc).
refresh_pools(fetched) ==
    <<"SOL", "USDC">> :>
        << [dex |-> "Raydium", reserve_a |-> fetched[1], reserve_b |-> fetched[2],
            fee_bps |-> 25],
           [dex |-> "Orca", reserve_a |-> fetched[3], reserve_b |-> fetched[4],
            fee_bps |-> 30] >>

\* ArbitrageScanner::find_triangle_arb: `None`.
find_triangle_arb(pools_by_pair, token_a, token_b, token_c, amount) == [kind |-> "None"]

\* `test_amounts`.
TestAmounts == <<500, 1000, 2500, 5000, 10000>>

\* `if let Some(opp) = .. { if opp.profit_percent > limit { push } }` with
\* profit_percent = net_profit / amount * 100 and limit = per_100000 / 1000:
\* the opportunity is kept when the profit exceeds that share of the amount.
KeepAbove(found, per_100000) ==
    IF found.kind = "Some" /\ found.expected_profit * 100000 > found.amount_in * per_100000
    THEN <<found>> ELSE <<>>

\* What one trial amount adds to the list, in the order of the three searches.
ScanAmount(pools_by_pair, amount) ==
    KeepAbove(find_triangle_arb(pools_by_pair, "USDC", "SOL", "USDC", amount), 100)
    \o KeepAbove(find_cross_dex_arb(pools_by_pair, "USDC", "SOL", amount), 100)
    \o KeepAbove(find_cross_dex_arb(pools_by_pair, "USDT", "USDC", amount), 50)

\* `sort_by(|a, b| b.expected_profit.cmp(&a.expected_profit))`, a stable sort.
SortByExpectedProfit(opps) ==
    LET before(i, j) == \/ opps[i].expected_profit > opps[j].expected_profit
                        \/ (opps[i].expected_profit = opps[j].expected_profit /\ i < j)
        rank(i) == Cardinality({j \in 1..Len(opps) : before(j, i)}) + 1
    IN  [k \in 1..Len(opps) |-> opps[CHOOSE i \in 1..Len(opps) : rank(i) = k]]

\* ArbitrageScanner::scan after refresh_pools: the sorted list it returns.
scan(pools_by_pair) ==
    SortByExpectedProfit(
        ScanAmount(pools_by_pair, TestAmounts[1]) \o ScanAmount(pools_by_pair, TestAmounts[2])
        \o ScanAmount(pools_by_pair, TestAmounts[3]) \o ScanAmount(pools_by_pair, TestAmounts[4])
        \o ScanAmount(pools_by_pair, TestAmounts[5]))

\* What fetch_pool_reserve may return for a reserve: 0 (no account), the
\* size of the other side, and larger pools.
ReserveSamples == {0, 1000, 10000, 40000}

InitArbScan ==
    /\ overflow_checks = FALSE
    /\ ev_in \in { [fn |-> "arbitrage_scan", fetched |-> <<a1, b1, a2, b2>>] :
                     a1 \in ReserveSamples, b1 \in ReserveSamples,
                     a2 \in ReserveSamples, b2 \in ReserveSamples }
    /\ ev_out = NotEvaluated
    /\ dry_run = TRUE
    /\ InitExec
    /\ InitLimiter(ScannerCeiling)
    /\ InitScan(DefaultConfig)
    /\ InitStats

\* scan: `self.refresh_pools().await?`.
RefreshPools ==
    /\ ev_in.fn = "arbitrage_scan"
    /\ ~Evaluated
    /\ ev_out' = [status |-> "refreshed", pools |-> refresh_pools(ev_in.fetched),
                  opportunities |-> <<>>]
    /\ UNCHANGED <<overflow_checks, ev_in>>
    /\ UNCHANGED <<execVars, limiterVars, scanVars, pollVars>>

\* scan: the searches over the trial amounts, the sort and `Ok(opportunities)`.
ScanSearches ==
    /\ ev_in.fn = "arbitrage_scan"
    /\ ev_out.status = "refreshed"
    /\ ev_out' = [status |-> "done", pools |-> ev_out.pools,
                  opportunities |-> scan(ev_out.pools)]
    /\ UNCHANGED <<overflow_checks, ev_in>>
    /\ UNCHANGED <<execVars, limiterVars, scanVars, pollVars>>

NextArbScan ==
    \/ RefreshPools
    \/ ScanSearches

SpecArbScan == InitArbScan /\ [][NextArbScan]_vars

\* C29: ArbitrageScanner::scan returns an empty list whatever the reserves of
\* the pools are: the pools are stored under (SOL, USDC) only, the lookups
\* are made under (USDC, SOL) and (USDT, USDC), and the triangle search
\* returns None.
C29_ScanAlwaysEmpty ==
    /\ (ev_in.fn = "arbitrage_scan" /\ ev_out.status \in {"refreshed", "done"}) =>
           /\ DOMAIN ev_out.pools = {<<"SOL", "USDC">>}
           /\ \A a \in 1..Len(TestAmounts) :
                 /\ find_cross_dex_arb(ev_out.pools, "USDC", "SOL", TestAmounts[a]).kind = "None"
                 /\ find_cross_dex_arb(ev_out.pools, "USDT", "USDC", TestAmounts[a]).kind = "None"
    /\ (ev_in.fn = "arbitrage_scan" /\ ev_out.status = "done") =>
           ev_out.opportunities = <<>>

\* A scan has returned over two pools between which a round trip under the
\* stored pair pays more than the fee and the 0.1 % limit.
C29_Witness ==
    /\ ev_in.fn = "arbitrage_scan"
    /\ ev_out.status = "done"
    /\ KeepAbove(find_cross_dex_arb(ev_out.pools, "SOL", "USDC", TestAmounts[1]), 100) # <<>>
    /\ ev_out.opportunities = <<>>

(***************************************************************************)
(* main.rs: the loop of start_bot.  The loop is one task: it awaits every  *)
(* call it makes, so the Liquidator calls below are those of task          *)
(* LoopTask, one after the other.                                          *)
(***************************************************************************)

\* The number of poll ticks a behaviour goes through.
MaxPolls == 2

\* The task of start_bot.
LoopTask == 1

\* What scan_all may return to the loop: the opportunities of the Kamino and
\* Marginfi tasks that passed the filter, highest profit first.
ScanResults ==
    LET kamino   == CHOOSE o \in LiquidationOpportunities : o.protocol = "Kamino"
        marginfi == CHOOSE o \in LiquidationOpportunities : o.protocol = "Marginfi"
    IN  { <<>>, <<kamino>>, <<marginfi>>, <<marginfi, kamino>>, <<kamino, kamino>> }

\* BotStats::record_scan.
record_scan(st, found) ==
    [st EXCEPT !.total_scans = @ + 1, !.opportunities_found = @ + found]

\* A record_liquidation that does not count a failed attempt.
record_liquidation_FailureUncounted(st, success, profit) ==
    IF success
    THEN [st EXCEPT !.liquidations_attempted = @ + 1,
                    !.liquidations_success = @ + 1,
                    !.total_profit_lamports = WrappingAdd(@, profit)]
    ELSE st

\* BotStats::record_liquidation.
record_liquidation(st, success, profit) ==
    IF success
    THEN [st EXCEPT !.liquidations_attempted = @ + 1,
                    !.liquidations_success = @ + 1,
                    !.total_profit_lamports = WrappingAdd(@, profit)]
    ELSE [st EXCEPT !.liquidations_attempted = @ + 1,
                    !.liquidations_failed = @ + 1]

\* The loop on an Err of execute with `?` in place of the match.
AfterExecute_Propagates(r) == IF r.kind = "Err" THEN "exit" ELSE "sleep"

\* `match liquidator.execute(opp).await`: both arms record the attempt and
\* fall through to the sleep.
AfterExecute(r) == "sleep"

\* `poll.tick().await`.
PollTick ==
    /\ poll.at = "tick"
    /\ poll.ticks < MaxPolls
    /\ poll' = [poll EXCEPT !.at = "scan_all", !.opportunities = <<>>, !.i = 0,
                             !.error = "none", !.ticks = @ + 1]
    /\ UNCHANGED stats
    /\ UNCHANGED <<evalVars, execVars, limiterVars, scanVars>>

\* `scan_all().await` (it returns Ok on every path; a failed protocol task is
\* logged inside it), record_scan, and the `continue` on an empty list.
PollScanAll ==
    /\ poll.at = "scan_all"
    /\ \E opportunities \in ScanResults, task_failed \in BOOLEAN :
          /\ stats' = record_scan(stats, Len(opportunities))
          /\ poll' = [poll EXCEPT
                        !.at = IF opportunities = <<>> THEN "tick" ELSE "execute",
                        !.opportunities = opportunities,
                        !.i = IF opportunities = <<>> THEN 0 ELSE 1,
                        !.error = IF task_failed THEN "scan" ELSE "none"]
    /\ UNCHANGED <<evalVars, execVars, limiterVars, scanVars>>

\* `liquidator.execute(opp)` is called for the opportunity the loop is at.
PollExecute ==
    /\ poll.at = "execute"
    /\ Execute(LoopTask, poll.opportunities[poll.i])

\* The call runs: the loop is suspended on its `.await`.
Awaiting == poll.at = "execute"

\* execute has returned: the match on its result with record_liquidation in
\* both arms; the result is dropped at the end of the arm.
PollRecord ==
    /\ poll.at = "execute"
    /\ pc[LoopTask] = "returned"
    /\ LET r == result[LoopTask]
       IN  /\ stats' = IF r.kind = "Err"
                       THEN record_liquidation(stats, FALSE, FromNat(0, 64))
                       ELSE record_liquidation(stats, r.success, r.profit)
           /\ poll' = [poll EXCEPT
                         !.at = AfterExecute(r),
                         !.error = IF r.kind = "Err"
                                   THEN (IF r.error = "Liquidation already in progress"
                                         THEN "busy" ELSE "execute")
                                   ELSE IF ~r.success THEN "failed" ELSE @]
    /\ pc' = [pc EXCEPT ![LoopTask] = "idle"]
    /\ opportunity' = [opportunity EXCEPT ![LoopTask] = NoOpportunity]
    /\ calls' = [calls EXCEPT ![LoopTask] = <<>>]
    /\ tx' = [tx EXCEPT ![LoopTask] = <<>>]
    /\ sim' = [sim EXCEPT ![LoopTask] = "none"]
    /\ result' = [result EXCEPT ![LoopTask] = NoResult]
    /\ UNCHANGED <<EXECUTING, dry_run>>
    /\ UNCHANGED <<evalVars, limiterVars, scanVars>>

\* `sleep(500 ms)`, then the next opportunity or, after the last one, the
\* arbitrage scan.
PollSleep ==
    /\ poll.at = "sleep"
    /\ poll' = IF poll.i < Len(poll.opportunities)
               THEN [poll EXCEPT !.at = "execute", !.i = @ + 1]
               ELSE [poll EXCEPT !.at = "arbitrage",
                                 !.executed = @ + Len(poll.opportunities)]
    /\ UNCHANGED stats
    /\ UNCHANGED <<evalVars, execVars, limiterVars, scanVars>>

\* `arb.scan().await`: the list is empty, so the executor is not called, and
\* the loop goes to its next tick.
PollArbitrage ==
    /\ poll.at = "arbitrage"
    /\ \E a \in ReserveSamples, b \in ReserveSamples :
          poll' = [poll EXCEPT
                     !.at = IF scan(refresh_pools(<<a, b, a, b>>)) = <<>>
                            THEN "tick" ELSE "arbitrage_execute"]
    /\ UNCHANGED stats
    /\ UNCHANGED <<evalVars, execVars, limiterVars, scanVars>>

InitLoop ==
    /\ overflow_checks = FALSE
    /\ ev_in = [fn |-> "none"]
    /\ ev_out = NotEvaluated
    /\ dry_run \in BOOLEAN
    /\ InitExec
    /\ InitLimiter(ScannerCeiling)
    /\ InitScan(DefaultConfig)
    /\ InitStats

NextLoop ==
    \/ PollTick
    \/ PollScanAll
    \/ PollExecute
    \/ Awaiting /\ ExecuteInternal(LoopTask)
    \/ Awaiting /\ BalanceBefore(LoopTask)
    \/ Awaiting /\ KaminoBuild(LoopTask)
    \/ Awaiting /\ KaminoSimulate(LoopTask)
    \/ Awaiting /\ KaminoSend(LoopTask)
    \/ Awaiting /\ MarginfiBuild(LoopTask)
    \/ Awaiting /\ MarginfiSimulate(LoopTask)
    \/ Awaiting /\ MarginfiSend(LoopTask)
    \/ Awaiting /\ BalanceAfter(LoopTask)
    \/ Awaiting /\ Store(LoopTask)
    \/ PollRecord
    \/ PollSleep
    \/ PollArbitrage

SpecLoop == InitLoop /\ [][NextLoop]_vars

\* The loop's task is scheduled whenever it can take a step: every call it
\* awaits returns (the RPC client has a timeout) and every sleep ends.
SpecLoopFair == SpecLoop /\ WF_vars(NextLoop)


\* The calls of liquidator.execute the loop has made so far, and those that
\* have returned and been matched.
Issued ==
    poll.executed
    + (IF poll.at = "execute"
       THEN (poll.i - 1) + (IF pc[LoopTask] # "idle" THEN 1 ELSE 0)
       ELSE IF poll.at = "sleep" THEN poll.i ELSE 0)

Matched ==
    Issued - (IF poll.at = "execute" /\ pc[LoopTask] # "idle" THEN 1 ELSE 0)

\* C30: the loop executes the opportunities of a cycle one at a time: when it
\* calls execute the guard is free, so no call of the loop is rejected as
\* busy, and every call that returned is in the statistics exactly once, with
\* attempted = succeeded + failed.
C30_OneAtATimeAndCountedOnce ==
    /\ (pc[LoopTask] = "idle") => ~EXECUTING
    /\ result[LoopTask] # Err("Liquidation already in progress")
    /\ poll.error # "busy"
    /\ stats.liquidations_attempted = Matched
    /\ stats.liquidations_attempted = stats.liquidations_success + stats.liquidations_failed

\* Within one cycle two attempts have returned, one failed after another
\* had succeeded, and the loop is about to leave the cycle.
C30_Witness ==
    /\ poll.ticks = 1
    /\ poll.at = "sleep"
    /\ poll.i = 2
    /\ stats.liquidations_success = 1
    /\ stats.liquidations_failed = 1
    /\ poll.error = "execute"

\* C24: in the running loop no failed scan task, no failed or refused
\* execution and no arbitrage outcome ends the loop, and after each of them
\* the loop reaches its next poll tick.
C24_ErrorsLeadToNextTick ==
    /\ [](poll.at \notin {"exit", "arbitrage_execute"})
    /\ (poll.error # "none") ~> (poll.at = "tick")

\* After an execute that returned Err in the second cycle, recorded as a
\* failed attempt, the loop is at its tick again.
C24_Witness ==
    /\ poll.at = "tick"
    /\ poll.ticks = MaxPolls
    /\ poll.error = "execute"
    /\ stats.liquidations_failed > 0

(***************************************************************************)
(* utils.rs: retry_with_backoff.  The operation is the sequence of what    *)
(* its successive invocations return.                                      *)
(***************************************************************************)

\* The largest max_retries of a call.
MaxRetries == 4

\* What invocation k of the operation returns.
OpOk(k) == [kind |-> "Ok", value |-> k, error |-> [text |-> "none", attempt |-> 0]]

OpErr(k) == [kind |-> "Err", value |-> 0, error |-> [text |-> "operation", attempt |-> k]]

\* `Err(anyhow!("Max retries atteint"))` after the loop.
MaxRetriesReached ==
    [kind |-> "Err", value |-> 0, error |-> [text |-> "Max retries atteint", attempt |-> 0]]

NotReturned == [kind |-> "none", value |-> 0, error |-> [text |-> "none", attempt |-> 0]]

\* `let mut delay_ms = 500u64`.
InitialDelayMs == 500

\* A delay that stays what it was.
NextDelay_Constant(delay_ms) == delay_ms

\* `delay_ms *= 2`.
NextDelay(delay_ms) == delay_ms * 2

RetryInputs ==
    { [fn |-> "retry_with_backoff", max_retries |-> n, succeeds |-> s] :
        n \in 0..MaxRetries, s \in [1..MaxRetries -> BOOLEAN] }

InitRetry ==
    /\ overflow_checks = FALSE
    /\ ev_in \in RetryInputs
    /\ ev_out = NotEvaluated
    /\ dry_run = TRUE
    /\ InitExec
    /\ InitLimiter(ScannerCeiling)
    /\ InitScan(DefaultConfig)
    /\ InitStats

\* The call: `delay_ms = 500` and the `for attempt in 1..=max_retries`, which
\* for max_retries = 0 has no iteration and falls through to the final Err.
RetryEnter ==
    /\ ev_in.fn = "retry_with_backoff"
    /\ ~Evaluated
    /\ ev_out' = [status   |-> IF ev_in.max_retries = 0 THEN "returned" ELSE "attempt",
                  attempt  |-> 1,
                  delay_ms |-> InitialDelayMs,
                  invoked  |-> 0,
                  slept    |-> <<>>,
                  result   |-> IF ev_in.max_retries = 0 THEN MaxRetriesReached
                               ELSE NotReturned]
    /\ UNCHANGED <<overflow_checks, ev_in>>
    /\ UNCHANGED <<execVars, limiterVars, scanVars, pollVars>>

\* `match operation().await`: Ok returns the value, Err on the last attempt
\* returns the error, Err before it goes on to the sleep.
RetryAttempt ==
    /\ ev_in.fn = "retry_with_backoff"
    /\ ev_out.status = "attempt"
    /\ LET k  == ev_out.attempt
           ok == ev_in.succeeds[k]
       IN  ev_out' = [ev_out EXCEPT
                        !.invoked = @ + 1,
                        !.status  = IF ok \/ k = ev_in.max_retries
                                    THEN "returned" ELSE "sleep",
                        !.result  = IF ok THEN OpOk(k)
                                    ELSE IF k = ev_in.max_retries THEN OpErr(k)
                                    ELSE @]
    /\ UNCHANGED <<overflow_checks, ev_in>>
    /\ UNCHANGED <<execVars, limiterVars, scanVars, pollVars>>

\* `sleep(Duration::from_millis(delay_ms)).await; delay_ms *= 2;` and the
\* next iteration.
RetrySleep ==
    /\ ev_in.fn = "retry_with_backoff"
    /\ ev_out.status = "sleep"
    /\ ev_out' = [ev_out EXCEPT
                    !.slept    = Append(@, ev_out.delay_ms),
                    !.delay_ms = NextDelay(@),
                    !.attempt  = @ + 1,
                    !.status   = "attempt"]
    /\ UNCHANGED <<overflow_checks, ev_in>>
    /\ UNCHANGED <<execVars, limiterVars, scanVars, pollVars>>

NextRetry ==
    \/ RetryEnter
    \/ RetryAttempt
    \/ RetrySleep

SpecRetry == InitRetry /\ [][NextRetry]_vars

\* The attempts up to max_retries at which the operation succeeds.
SuccessfulAttempts == {k \in 1..ev_in.max_retries : ev_in.succeeds[k]}

FirstSuccess == CHOOSE k \in SuccessfulAttempts : \A j \in SuccessfulAttempts : k <= j

\* C26: retry_with_backoff invokes the operation at most max_retries times;
\* it stops at the first success and returns its value; when all attempts
\* fail it returns the error of the last one; between consecutive attempts it
\* waits 500 ms, 1000 ms, 2000 ms, .. and it does not wait after the final
\* failure; for max_retries = 0 it returns an error without an invocation.
C26_RetryWithBackoff ==
    (ev_in.fn = "retry_with_backoff" /\ Evaluated) =>
        /\ ev_out.invoked <= ev_in.max_retries
        /\ \A k \in 1..Len(ev_out.slept) : ev_out.slept[k] = 500 * (2 ^ (k - 1))
        /\ ev_out.status = "returned" =>
              /\ Len(ev_out.slept) = (IF ev_out.invoked = 0 THEN 0 ELSE ev_out.invoked - 1)
              /\ IF ev_in.max_retries = 0
                 THEN ev_out.invoked = 0 /\ ev_out.result.kind = "Err"
                 ELSE IF SuccessfulAttempts # {}
                 THEN ev_out.invoked = FirstSuccess /\ ev_out.result = OpOk(FirstSuccess)
                 ELSE /\ ev_out.invoked = ev_in.max_retries
                      /\ ev_out.result = OpErr(ev_in.max_retries)

\* Three attempts failed: the call has returned the third error after waits
\* of 500 ms and 1000 ms.
C26_Witness ==
    /\ ev_in.fn = "retry_with_backoff"
    /\ ev_in.max_retries = 3
    /\ ev_out.status = "returned"
    /\ ev_out.result = OpErr(3)
    /\ ev_out.slept = <<500, 1000>>

(***************************************************************************)
(* Program identifiers and derived addresses.  A Pubkey is the 32 bytes    *)
(* its base58 text decodes into, digit by digit; a program-derived address *)
(* is kept as the seeds and the program it is the function of.             *)
(***************************************************************************)

Base58Alphabet ==
    <<"1", "2", "3", "4", "5", "6", "7", "8", "9", "A", "B", "C", "D", "E",
      "F", "G", "H", "J", "K", "L", "M", "N", "P", "Q", "R", "S", "T", "U",
      "V", "W", "X", "Y", "Z", "a", "b", "c", "d", "e", "f", "g", "h", "i",
      "j", "k", "m", "n", "o", "p", "q", "r", "s", "t", "u", "v", "w", "x",
      "y", "z">>

IsBase58(c) == \E d \in 1..58 : Base58Alphabet[d] = c

Base58Digit(c) == (CHOOSE d \in 1..58 : Base58Alphabet[d] = c) - 1

\* One round of the decoding loop: the number so far, on 264 bits, times 58
\* plus the digit.
DecodeDigit(acc, c) ==
    WrappingAdd(MulSmall(acc, 58, 264), FromNat(Base58Digit(c), 264))

\* The number of leading `1` digits, each of which is a leading zero byte.
RECURSIVE LeadingOnes(_)
LeadingOnes(text) ==
    IF text # <<>> /\ Head(text) = "1" THEN 1 + LeadingOnes(Tail(text)) ELSE 0

\* Pubkey::from_str once the digits are read: the text must be base58, at
\* most 44 characters, and stand for exactly 32 bytes.
PubkeyFromStr(text, value) ==
    LET bytes == LeadingOnes(text) + ((BitLen(value) + 7) \div 8)
    IN  IF (\E k \in 1..Len(text) : ~IsBase58(text[k])) \/ Len(text) > 44 \/ bytes # 32
        THEN [ok |-> FALSE, key |-> DefaultPubkey]
        ELSE [ok |-> TRUE, key |-> Resize(value, 256)]

\* ProgramIds::kamino_lending (config.rs).
ProgramIds_kamino_lending ==
    <<"K", "L", "e", "n", "d", "2", "g", "3", "c", "P", "8", "7", "f", "f",
      "f", "o", "y", "8", "q", "1", "m", "Q", "q", "G", "K", "j", "r", "x",
      "j", "C", "8", "b", "o", "S", "y", "A", "Y", "a", "v", "g", "m", "j",
      "D">>

\* ProgramIds::marginfi (config.rs).
ProgramIds_marginfi ==
    <<"M", "F", "v", "2", "h", "W", "f", "3", "1", "Z", "9", "k", "b", "C",
      "a", "1", "s", "n", "E", "P", "Y", "c", "t", "w", "a", "f", "y", "h",
      "d", "v", "n", "V", "7", "F", "Z", "n", "s", "e", "b", "V", "F", "x",
      "A">>

\* ProgramIds::marginfi_group (config.rs).
ProgramIds_marginfi_group ==
    <<"4", "q", "p", "6", "F", "x", "6", "t", "n", "Z", "k", "Y", "5", "W",
      "r", "o", "p", "q", "9", "w", "U", "Y", "g", "t", "F", "x", "X", "K",
      "w", "E", "6", "v", "i", "Z", "x", "F", "H", "g", "3", "r", "d", "A",
      "G", "8">>

\* kamino_instructions::KAMINO_PROGRAM (liquidator.rs).
KAMINO_PROGRAM ==
    <<"K", "L", "e", "n", "d", "2", "g", "3", "c", "P", "8", "7", "f", "f",
      "f", "o", "y", "8", "q", "1", "m", "Q", "q", "G", "K", "j", "r", "x",
      "j", "C", "8", "b", "o", "S", "y", "A", "Y", "a", "v", "g", "m", "j",
      "D">>

\* marginfi_instructions::MARGINFI_PROGRAM (liquidator.rs).
MARGINFI_PROGRAM ==
    <<"M", "F", "v", "2", "h", "W", "f", "3", "1", "Z", "9", "k", "b", "C",
      "a", "1", "s", "n", "E", "P", "Y", "c", "t", "w", "a", "f", "y", "h",
      "d", "v", "n", "V", "7", "F", "Z", "n", "s", "e", "b", "V", "a", "c",
      "A">>

\* The literal of scan_kamino_parallel (scanner.rs).
ScannerKaminoProgram ==
    <<"K", "L", "e", "n", "d", "2", "g", "3", "c", "P", "8", "7", "f", "f",
      "f", "o", "y", "8", "q", "1", "m", "Q", "q", "G", "K", "j", "r", "x",
      "j", "C", "8", "b", "o", "S", "y", "A", "Y", "a", "v", "g", "m", "j",
      "D">>

\* The literal of execute_jupiter_swap and of the arbitrage instruction
\* builders (arbitrage.rs).
ArbitrageKaminoProgram ==
    <<"K", "L", "e", "n", "d", "2", "g", "3", "c", "P", "8", "7", "f", "f",
      "f", "o", "y", "8", "q", "1", "m", "Q", "q", "G", "K", "j", "r", "x",
      "j", "C", "8", "b", "o", "S", "y", "A", "Y", "a", "v", "g", "m", "j",
      "D">>

\* The Kamino main market, as execute_kamino_liquidation writes it.
LiquidatorLendingMarket ==
    <<"7", "u", "3", "H", "e", "H", "x", "Y", "D", "L", "h", "n", "C", "o",
      "E", "r", "r", "t", "y", "c", "N", "o", "k", "b", "Q", "Y", "b", "W",
      "G", "z", "L", "s", "6", "J", "S", "D", "q", "G", "A", "v", "5", "P",
      "f", "F">>

\* The Kamino main market, as execute_jupiter_swap writes it.
ArbitrageLendingMarket ==
    <<"7", "u", "3", "H", "e", "H", "x", "Y", "D", "L", "h", "n", "C", "o",
      "E", "r", "r", "t", "y", "c", "N", "o", "k", "b", "Q", "Y", "b", "W",
      "G", "z", "L", "s", "6", "J", "S", "D", "q", "G", "A", "v", "5", "P",
      "f", "F">>

\* The identifier texts the components hold, by the place that holds them.
IdTexts ==
    [ kamino_lending    |-> ProgramIds_kamino_lending,
      marginfi          |-> ProgramIds_marginfi,
      marginfi_group    |-> ProgramIds_marginfi_group,
      KAMINO_PROGRAM    |-> KAMINO_PROGRAM,
      MARGINFI_PROGRAM  |-> MARGINFI_PROGRAM,
      scanner_kamino    |-> ScannerKaminoProgram,
      arbitrage_kamino  |-> ArbitrageKaminoProgram,
      liquidator_market |-> LiquidatorLendingMarket,
      arbitrage_market  |-> ArbitrageLendingMarket ]

\* The longest text Pubkey::from_str reads to its end.
MAX_BASE58_LEN == 44

\* The key a text was decoded into.
Key(name) == ev_out.keys[name].key

KaminoProgramId == Key("KAMINO_PROGRAM")

MarginfiProgramId == Key("MARGINFI_PROGRAM")

\* The program under which each protocol's accounts are fetched by the scan
\* tasks: a literal for Kamino, ProgramIds::marginfi() for Marginfi.
FetchProgramId(protocol) ==
    IF protocol = "Kamino" THEN Key("scanner_kamino") ELSE Key("marginfi")

\* The program_id of the instructions the executors build: the liquidator's
\* builders use KAMINO_PROGRAM and MARGINFI_PROGRAM, the arbitrage builders
\* their own literal.
InstructionProgramId(component) ==
    IF component = "marginfi_instructions" THEN MarginfiProgramId
    ELSE IF component = "kamino_instructions" THEN KaminoProgramId
    ELSE Key("arbitrage_kamino")

\* Pubkey::find_program_address(seeds, program).0: a function of the seeds
\* and the program.
find_program_address(seeds, program) == [seeds |-> seeds, program |-> program]

\* An authority derived under another tag.
arbitrage_lending_market_authority_OtherTag(lending_market) ==
    find_program_address(<<"lending_market_auth", lending_market>>,
                         Key("arbitrage_kamino"))

\* kamino_instructions::derive_lending_market_authority.
derive_lending_market_authority(lending_market) ==
    find_program_address(<<"lma", lending_market>>, KaminoProgramId)

\* execute_jupiter_swap: the lending market authority it derives itself.
arbitrage_lending_market_authority(lending_market) ==
    find_program_address(<<"lma", lending_market>>, Key("arbitrage_kamino"))

\* execute_jupiter_swap: reserve_liquidity_supply.
arbitrage_reserve_liquidity_supply(reserve) ==
    find_program_address(<<"liquidity", reserve>>, Key("arbitrage_kamino"))

derive_reserve_liquidity_supply(reserve) ==
    find_program_address(<<"liquidity", reserve>>, KaminoProgramId)

derive_reserve_collateral_supply(reserve) ==
    find_program_address(<<"collateral", reserve>>, KaminoProgramId)

derive_reserve_fee_receiver(reserve) ==
    find_program_address(<<"fee_receiver", reserve>>, KaminoProgramId)

derive_bank_liquidity_vault(bank) ==
    find_program_address(<<"liquidity_vault", bank>>, MarginfiProgramId)

derive_bank_insurance_vault(bank) ==
    find_program_address(<<"insurance_vault", bank>>, MarginfiProgramId)

derive_bank_vault_authority(bank) ==
    find_program_address(<<"liquidity_vault_auth", bank>>, MarginfiProgramId)

derive_marginfi_account(user, group) ==
    find_program_address(<<"marginfi_account", user, group>>, MarginfiProgramId)

\* The derivations by name, each with the protocol whose program it
\* belongs to.
Derivations ==
    { [name |-> "derive_lending_market_authority", protocol |-> "Kamino"],
      [name |-> "arbitrage_lending_market_authority", protocol |-> "Kamino"],
      [name |-> "arbitrage_reserve_liquidity_supply", protocol |-> "Kamino"],
      [name |-> "derive_reserve_liquidity_supply", protocol |-> "Kamino"],
      [name |-> "derive_reserve_collateral_supply", protocol |-> "Kamino"],
      [name |-> "derive_reserve_fee_receiver", protocol |-> "Kamino"],
      [name |-> "derive_bank_liquidity_vault", protocol |-> "Marginfi"],
      [name |-> "derive_bank_insurance_vault", protocol |-> "Marginfi"],
      [name |-> "derive_bank_vault_authority", protocol |-> "Marginfi"],
      [name |-> "derive_marginfi_account", protocol |-> "Marginfi"] }

\* The derivation `name` applied to the address `seed`; the liquidator's
\* account is derived for the seed as user and the Marginfi group.
Derive(name, seed) ==
    CASE name = "derive_lending_market_authority" -> derive_lending_market_authority(seed)
      [] name = "arbitrage_lending_market_authority" -> arbitrage_lending_market_authority(seed)
      [] name = "arbitrage_reserve_liquidity_supply" -> arbitrage_reserve_liquidity_supply(seed)
      [] name = "derive_reserve_liquidity_supply" -> derive_reserve_liquidity_supply(seed)
      [] name = "derive_reserve_collateral_supply" -> derive_reserve_collateral_supply(seed)
      [] name = "derive_reserve_fee_receiver" -> derive_reserve_fee_receiver(seed)
      [] name = "derive_bank_liquidity_vault" -> derive_bank_liquidity_vault(seed)
      [] name = "derive_bank_insurance_vault" -> derive_bank_insurance_vault(seed)
      [] name = "derive_bank_vault_authority" -> derive_bank_vault_authority(seed)
      [] OTHER -> derive_marginfi_account(seed, Key("marginfi_group"))

\* Addresses the derivations are applied to: the main market as each
\* executor writes it, the default address, and a reserve or bank.
SeedSamples == {"liquidator_market", "arbitrage_market", "default", "reserve"}

SeedAddress(seed) ==
    CASE seed = "liquidator_market" -> Key("liquidator_market")
      [] seed = "arbitrage_market" -> Key("arbitrage_market")
      [] seed = "default" -> DefaultPubkey
      [] OTHER -> [j \in 1..32 |-> j]

DeriveInputs ==
    { [fn |-> "derive", first |-> [name |-> d1.name, protocol |-> d1.protocol, seed |-> s1],
       second |-> [name |-> d2.name, protocol |-> d2.protocol, seed |-> s2]] :
        d1 \in Derivations, d2 \in Derivations, s1 \in SeedSamples, s2 \in SeedSamples }

\* Nothing is decoded yet.
InitDerive ==
    /\ overflow_checks = FALSE
    /\ ev_in = [fn |-> "from_str"]
    /\ ev_out = [status |-> "decoding", digits |-> 0,
                 value |-> [n \in DOMAIN IdTexts |-> FromNat(0, 264)]]
    /\ dry_run = TRUE
    /\ InitExec
    /\ InitLimiter(ScannerCeiling)
    /\ InitScan(DefaultConfig)
    /\ InitStats

\* Pubkey::from_str reads the next digit of every text that has one.
ReadDigit ==
    /\ ev_out.status = "decoding"
    /\ ev_out.digits < MAX_BASE58_LEN
    /\ LET k == ev_out.digits + 1
       IN  ev_out' = [ev_out EXCEPT
               !.digits = k,
               !.value = [n \in DOMAIN IdTexts |->
                   IF k <= Len(IdTexts[n]) /\ IsBase58(IdTexts[n][k])
                   THEN DecodeDigit(ev_out.value[n], IdTexts[n][k])
                   ELSE ev_out.value[n]]]
    /\ UNCHANGED <<overflow_checks, ev_in>>
    /\ UNCHANGED <<execVars, limiterVars, scanVars, pollVars>>

\* Pubkey::from_str returns for every text.
FromStr ==
    /\ ev_out.status = "decoding"
    /\ ev_out.digits = MAX_BASE58_LEN
    /\ ev_out' = [status |-> "decoded",
                  keys |-> [n \in DOMAIN IdTexts |->
                               PubkeyFromStr(IdTexts[n], ev_out.value[n])]]
    /\ UNCHANGED <<overflow_checks, ev_in>>
    /\ UNCHANGED <<execVars, limiterVars, scanVars, pollVars>>

\* Two derivations are made, one after the other.
DeriveBoth ==
    /\ ev_out.status = "decoded"
    /\ \E input \in DeriveInputs :
          /\ ev_in' = input
          /\ ev_out' = [status |-> "done", keys |-> ev_out.keys,
                        first  |-> Derive(input.first.name, SeedAddress(input.first.seed)),
                        second |-> Derive(input.second.name, SeedAddress(input.second.seed))]
    /\ UNCHANGED overflow_checks
    /\ UNCHANGED <<execVars, limiterVars, scanVars, pollVars>>

NextDerive == ReadDigit \/ FromStr \/ DeriveBoth

SpecDerive == InitDerive /\ [][NextDerive]_vars

\* C25: address derivation is deterministic: two invocations of one
\* derivation on one seed (the same tag, seed and program) give one address,
\* and the lending market authority the liquidation executor derives for a
\* market is the address the arbitrage executor derives for that market.
C25_DerivationDeterministic ==
    ev_out.status = "done" /\ ev_in.fn = "derive" =>
        /\ ((ev_in.first.name = ev_in.second.name
               /\ SeedAddress(ev_in.first.seed) = SeedAddress(ev_in.second.seed))
               => ev_out.first = ev_out.second)
        /\ ((ev_out.first.seeds = ev_out.second.seeds
               /\ ev_out.first.program = ev_out.second.program)
               => ev_out.first = ev_out.second)
        /\ ((ev_in.first.name = "derive_lending_market_authority"
               /\ ev_in.second.name = "arbitrage_lending_market_authority"
               /\ SeedAddress(ev_in.first.seed) = SeedAddress(ev_in.second.seed))
               => ev_out.first = ev_out.second)

\* Both executors have derived the authority of the main market, each from
\* the market address it writes itself.
C25_Witness ==
    /\ ev_out.status = "done"
    /\ ev_in.fn = "derive"
    /\ ev_in.first.name = "derive_lending_market_authority"
    /\ ev_in.second.name = "arbitrage_lending_market_authority"
    /\ ev_in.first.seed = "liquidator_market"
    /\ ev_in.second.seed = "arbitrage_market"
    /\ ev_out.first = ev_out.second
    /\ ev_out.first.program = Key("kamino_lending")

\* The component whose builder makes a protocol's liquidate instruction.
LiquidateBuilder(protocol) ==
    IF protocol = "Kamino" THEN "kamino_instructions" ELSE "marginfi_instructions"

\* C27: per protocol one program identifier: the program under which the
\* scanner fetches a protocol's accounts is the program its liquidate
\* instruction targets and the program its addresses are derived under.
C27_OneProgramIdPerProtocol ==
    ev_out.status = "done" /\ ev_in.fn = "derive" =>
        /\ ev_out.first.program = FetchProgramId(ev_in.first.protocol)
        /\ InstructionProgramId(LiquidateBuilder(ev_in.first.protocol))
               = FetchProgramId(ev_in.first.protocol)

\* For Kamino the identifiers agree in every component.
KaminoProgramIdAgrees ==
    ev_out.status = "done" /\ ev_in.fn = "derive" /\ ev_in.first.protocol = "Kamino" =>
        /\ ev_out.first.program = FetchProgramId("Kamino")
        /\ InstructionProgramId("kamino_instructions") = FetchProgramId("Kamino")
        /\ InstructionProgramId("arbitrage") = FetchProgramId("Kamino")
        /\ Key("kamino_lending") = FetchProgramId("Kamino")

\* Every identifier text is a valid key.
ProgramIdsParse ==
    ev_out.status \in {"decoded", "done"} =>
        \A n \in DOMAIN IdTexts : ev_out.keys[n].ok

\* C28: the amount placed in the liquidate instruction never exceeds the
\* opportunity's max_liquidatable: here for the opportunity the Kamino scan
\* makes of an account of the fetched size and the instruction list the
\* executor builds of it.
C28_RepaidWithinCloseFactor ==
    (ev_in.fn = "scan_kamino_data" /\ ev_in.data.len = FetchedSize
        /\ ev_out.status = "done") =>
        \A k \in DOMAIN ev_out.opportunities :
            LET o == ev_out.opportunities[k]
            IN  ~Less(o.max_liquidatable, KaminoInstructions(o)[2].liquidity_amount)

\* The Marginfi instruction carries max_liquidatable itself.
MarginfiRepaysMaxLiquidatable ==
    \A t \in LiquidationTasks :
        (opportunity[t].kind = "liquidation" /\ opportunity[t].protocol = "Marginfi"
            /\ tx[t] # <<>>)
           => tx[t][1].asset_amount = opportunity[t].max_liquidatable

====
